---- MODULE Spec2Model ----
(***************************************************************************)
(* Model of scripts/netbox-helpers/seed-netbox-from-clab.py: the fabric    *)
(* addressing planner (role classification, ordinals, router IDs, ASNs,    *)
(* /31 point-to-point addresses, topology depth by breadth-first search),  *)
(* the per-device config contexts, and the reconciliation run against the  *)
(* inventory (create_devices, create_interfaces_and_links).                *)
(*                                                                         *)
(* Strings are Python strings; an operation that can raise returns a       *)
(* record [ok, val] with ok = FALSE standing for the raised exception.     *)
(***************************************************************************)
EXTENDS Integers, Sequences, FiniteSets, TLC

VARIABLES
    clab,             \* the parsed ContainerLab document (clab_data)
    hashseed,         \* the process's string-hash seed: fixes set iteration order
    pc,               \* position of main(): "start", "devices", "links", "done", "fatal"
    node_index,       \* create_devices: index of the next node of nodes.items()
    link_index,       \* create_interfaces_and_links: enumerate() index of the next link
    devices,          \* the devices dict built by create_devices (its key set)
    successful_links, \* create_interfaces_and_links: successful_links
    nb,               \* the inventory (NetBox) contents
    failures,         \* number of inventory operations rejected so far
    last,             \* what the last loop iteration did (which item, which rejections)
    run,              \* which invocation of main() this is, counted from 1
    plan              \* planner harness: the last value computed by a pure function

vars == <<clab, hashseed, pc, node_index, link_index, devices,
          successful_links, nb, failures, last, run, plan>>

-----------------------------------------------------------------------------
(* Bounds of the model *)

\* longest link list of a topology handed to the planner harness
MaxLinks == 3
\* longest link list of a topology handed to the reconciliation run
MaxRunLinks == 2
\* inventory operations that may be rejected, all invocations together
MaxFailures == 1
\* invocations of main() on the same topology against the same inventory
MaxRuns == 2
\* greatest number written at the end of a device name handed to the planner
MaxOrdinal == 101
\* greatest number of links of a topology handed to the search harness
MaxBfsLinks == 4
\* greatest number of objects that an endpoint of the purged inventory holds
MaxPurgeObjects == 2

-----------------------------------------------------------------------------
(* Program constants *)

LOOPBACK_BASE == "10.255.255."
VTEP_LOOPBACK_BASE == "10.255.254."
SPINE_LOOPBACK_START == 1
LEAF_LOOPBACK_START == 101
BASE_ASN_SPINE == 65000
BASE_ASN_LEAF == 65100
P2P_LINK_BASE == "10.0."
DEFAULT_VLANS == << [vid |-> 10, name |-> "VLAN10"],
                    [vid |-> 20, name |-> "VLAN20"],
                    [vid |-> 30, name |-> "VLAN30"] >>

\* Python's None
None == "None"

-----------------------------------------------------------------------------
(* Python string primitives *)

Digits == {"0", "1", "2", "3", "4", "5", "6", "7", "8", "9"}

DigitVal(c) ==
    CASE c = "0" -> 0 [] c = "1" -> 1 [] c = "2" -> 2 [] c = "3" -> 3
      [] c = "4" -> 4 [] c = "5" -> 5 [] c = "6" -> 6 [] c = "7" -> 7
      [] c = "8" -> 8 [] c = "9" -> 9

CharAt(s, i) == SubSeq(s, i, i)

\* str.lower() on one character
LowerChar(c) ==
    CASE c = "A" -> "a" [] c = "B" -> "b" [] c = "C" -> "c" [] c = "D" -> "d"
      [] c = "E" -> "e" [] c = "F" -> "f" [] c = "G" -> "g" [] c = "H" -> "h"
      [] c = "I" -> "i" [] c = "J" -> "j" [] c = "K" -> "k" [] c = "L" -> "l"
      [] c = "M" -> "m" [] c = "N" -> "n" [] c = "O" -> "o" [] c = "P" -> "p"
      [] c = "Q" -> "q" [] c = "R" -> "r" [] c = "S" -> "s" [] c = "T" -> "t"
      [] c = "U" -> "u" [] c = "V" -> "v" [] c = "W" -> "w" [] c = "X" -> "x"
      [] c = "Y" -> "y" [] c = "Z" -> "z" [] OTHER -> c

RECURSIVE Lower(_)
Lower(s) ==
    IF Len(s) = 0 THEN ""
    ELSE LowerChar(CharAt(s, 1)) \o Lower(SubSeq(s, 2, Len(s)))

StartsWith(s, p) == Len(s) >= Len(p) /\ SubSeq(s, 1, Len(p)) = p

\* number of leading characters of s before the first sep (Len(s) if none)
RECURSIVE FindSep(_, _, _)
FindSep(s, sep, i) ==
    IF i > Len(s) THEN Len(s)
    ELSE IF CharAt(s, i) = sep THEN i - 1
    ELSE FindSep(s, sep, i + 1)

\* str.split(sep) for a one-character separator: the list of parts
RECURSIVE Split(_, _)
Split(s, sep) ==
    LET n == FindSep(s, sep, 1)
    IN  IF n = Len(s) THEN << s >>
        ELSE << SubSeq(s, 1, n) >> \o Split(SubSeq(s, n + 2, Len(s)), sep)

\* "a, b = s.split(':')": raises ValueError unless there are exactly two parts
ParseEndpoint(s) ==
    LET parts == Split(s, ":")
    IN  IF Len(parts) = 2
        THEN [ok |-> TRUE, dev |-> parts[1], intf |-> parts[2]]
        ELSE [ok |-> FALSE, dev |-> "", intf |-> ""]

\* int() of a string of decimal digits
RECURSIVE StrToInt(_)
StrToInt(s) ==
    IF Len(s) = 0 THEN 0
    ELSE 10 * StrToInt(SubSeq(s, 1, Len(s) - 1)) + DigitVal(CharAt(s, Len(s)))

\* length of the match of (\d+)$ in s, 0 when there is no match
RECURSIVE TrailingDigits(_)
TrailingDigits(s) ==
    IF Len(s) = 0 \/ CharAt(s, Len(s)) \notin Digits THEN 0
    ELSE 1 + TrailingDigits(SubSeq(s, 1, Len(s) - 1))

-----------------------------------------------------------------------------
(* Role classifier and addressing planner *)

\* the prefix match without device_name.lower()
determine_device_role_casesensitive(device_name) ==
    IF StartsWith(device_name, "spine") THEN "spine"
    ELSE IF StartsWith(device_name, "leaf") THEN "leaf"
    ELSE IF StartsWith(device_name, "border") THEN "border"
    ELSE "unknown"

determine_device_role(device_name) ==
    LET device_lower == Lower(device_name)
    IN  IF StartsWith(device_lower, "spine") THEN "spine"
        ELSE IF StartsWith(device_lower, "leaf") THEN "leaf"
        ELSE IF StartsWith(device_lower, "border") THEN "border"
        ELSE "unknown"

\* the pattern (\d)$ in place of (\d+)$: the last digit only
extract_device_number_lastdigit(device_name) ==
    IF TrailingDigits(device_name) > 0
    THEN DigitVal(CharAt(device_name, Len(device_name)))
    ELSE 0

extract_device_number(device_name) ==
    LET n == TrailingDigits(device_name)
    IN  IF n > 0
        THEN StrToInt(SubSeq(device_name, Len(device_name) - n + 1, Len(device_name)))
        ELSE 0

\* the router ID with the leaf range starting at 100
generate_router_id_leafat100(device_name, role) ==
    LET device_num == extract_device_number(device_name)
        octet == IF role = "spine" THEN SPINE_LOOPBACK_START + device_num - 1
                 ELSE IF role = "leaf" THEN 100 + device_num - 1
                 ELSE 100 + device_num
    IN  LOOPBACK_BASE \o ToString(octet)

generate_router_id(device_name, role) ==
    LET device_num == extract_device_number(device_name)
        octet == IF role = "spine" THEN SPINE_LOOPBACK_START + device_num - 1
                 ELSE IF role = "leaf" THEN LEAF_LOOPBACK_START + device_num - 1
                 ELSE 100 + device_num
    IN  LOOPBACK_BASE \o ToString(octet)

\* the VTEP address taken from the base of the router IDs
generate_vtep_ip_routerbase(device_name) ==
    LET device_num == extract_device_number(device_name)
        octet == LEAF_LOOPBACK_START + device_num - 1
    IN  LOOPBACK_BASE \o ToString(octet)

generate_vtep_ip(device_name) ==
    LET device_num == extract_device_number(device_name)
        octet == LEAF_LOOPBACK_START + device_num - 1
    IN  VTEP_LOOPBACK_BASE \o ToString(octet)

\* the ASN with one fixed number for the leafs as well
generate_asn_fixedleaf(device_name, role) ==
    IF role = "spine" THEN BASE_ASN_SPINE
    ELSE IF role = "leaf" THEN BASE_ASN_LEAF
    ELSE BASE_ASN_SPINE

generate_asn(device_name, role) ==
    IF role = "spine" THEN BASE_ASN_SPINE
    ELSE IF role = "leaf" THEN BASE_ASN_LEAF + extract_device_number(device_name) - 1
    ELSE BASE_ASN_SPINE

\* returns the pair (local_ip with /31, peer_ip without prefix length)
calculate_p2p_ips(idx, device_type) ==
    IF device_type = "leaf"
    THEN [local_ip |-> P2P_LINK_BASE \o ToString(idx) \o ".1/31",
          peer_ip  |-> P2P_LINK_BASE \o ToString(idx) \o ".0"]
    ELSE [local_ip |-> P2P_LINK_BASE \o ToString(idx) \o ".0/31",
          peer_ip  |-> P2P_LINK_BASE \o ToString(idx) \o ".1"]

-----------------------------------------------------------------------------
(* Topology access *)

\* clab_data['topology'].get('links', [])
Links(clab_data) == clab_data.links

\* list(nodes.keys())
NodeNames(clab_data) == [i \in 1..Len(clab_data.nodes) |-> clab_data.nodes[i].name]

\* [x for x in seq if determine_device_role(x) == role]
RECURSIVE FilterRole(_, _)
FilterRole(names, role) ==
    IF names = << >> THEN << >>
    ELSE (IF determine_device_role(Head(names)) = role THEN << Head(names) >> ELSE << >>)
         \o FilterRole(Tail(names), role)

SeqToSet(seq) == {seq[i] : i \in 1..Len(seq)}

\* whether both endpoint strings of every link up to index n unpack into two parts
EndpointsParse(links, n) ==
    \A i \in 1..n : /\ ParseEndpoint(links[i].endpoints[1]).ok
                    /\ ParseEndpoint(links[i].endpoints[2]).ok

\* the loop of get_device_links over links[i..]; link_index is i - 1
RECURSIVE DeviceLinksFrom(_, _, _)
DeviceLinksFrom(device_name, links, i) ==
    IF i > Len(links) THEN << >>
    ELSE LET e1 == ParseEndpoint(links[i].endpoints[1])
             e2 == ParseEndpoint(links[i].endpoints[2])
             here == IF e1.dev = device_name
                     THEN << [remote_device    |-> e2.dev,
                              local_interface  |-> e1.intf,
                              remote_interface |-> e2.intf,
                              link_index       |-> i - 1] >>
                     ELSE IF e2.dev = device_name
                     THEN << [remote_device    |-> e1.dev,
                              local_interface  |-> e2.intf,
                              remote_interface |-> e1.intf,
                              link_index       |-> i - 1] >>
                     ELSE << >>
         IN  here \o DeviceLinksFrom(device_name, links, i + 1)

get_device_links(device_name, clab_data) ==
    LET links == Links(clab_data)
    IN  IF EndpointsParse(links, Len(links))
        THEN [ok |-> TRUE, val |-> DeviceLinksFrom(device_name, links, 1)]
        ELSE [ok |-> FALSE, val |-> << >>]

-----------------------------------------------------------------------------
(* Adjacency and depth analyzer *)

\* adjacency.get(k, [])
AdjGet(adjacency, k) == IF k \in DOMAIN adjacency THEN adjacency[k] ELSE << >>

\* the adjacency-building loop without "adjacency[dev2_name].append(dev1_name)"
RECURSIVE BuildAdjacency_directed(_, _, _)
BuildAdjacency_directed(links, i, adjacency) ==
    IF i > Len(links) THEN adjacency
    ELSE LET d1 == ParseEndpoint(links[i].endpoints[1]).dev
             d2 == ParseEndpoint(links[i].endpoints[2]).dev
             a0 == (d1 :> AdjGet(adjacency, d1)) @@ (d2 :> AdjGet(adjacency, d2)) @@ adjacency
             a1 == [a0 EXCEPT ![d1] = Append(@, d2)]
         IN  BuildAdjacency_directed(links, i + 1, a1)

\* the adjacency-building loop of calculate_topology_depth over links[i..]
RECURSIVE BuildAdjacency(_, _, _)
BuildAdjacency(links, i, adjacency) ==
    IF i > Len(links) THEN adjacency
    ELSE LET d1 == ParseEndpoint(links[i].endpoints[1]).dev
             d2 == ParseEndpoint(links[i].endpoints[2]).dev
             a0 == (d1 :> AdjGet(adjacency, d1)) @@ (d2 :> AdjGet(adjacency, d2)) @@ adjacency
             a1 == [a0 EXCEPT ![d1] = Append(@, d2)]
             a2 == [a1 EXCEPT ![d2] = Append(@, d1)]
         IN  BuildAdjacency(links, i + 1, a2)

\* the for-loop without "if neighbor in visited: continue"
RECURSIVE ScanNeighbors_novisited(_, _, _, _, _, _)
ScanNeighbors_novisited(nbrs, j, depth, queue, visited, targets) ==
    IF j > Len(nbrs)
    THEN [found |-> FALSE, ret |-> 0, queue |-> queue, visited |-> visited]
    ELSE IF nbrs[j] \in targets
    THEN [found |-> TRUE, ret |-> depth + 1, queue |-> queue, visited |-> visited]
    ELSE ScanNeighbors_novisited(nbrs, j + 1, depth,
                                 Append(queue, [node |-> nbrs[j], depth |-> depth + 1]),
                                 visited \cup {nbrs[j]}, targets)

\* the for-loop over the neighbours of the dequeued node
RECURSIVE ScanNeighbors(_, _, _, _, _, _)
ScanNeighbors(nbrs, j, depth, queue, visited, targets) ==
    IF j > Len(nbrs)
    THEN [found |-> FALSE, ret |-> 0, queue |-> queue, visited |-> visited]
    ELSE IF nbrs[j] \in visited
    THEN ScanNeighbors(nbrs, j + 1, depth, queue, visited, targets)
    ELSE IF nbrs[j] \in targets
    THEN [found |-> TRUE, ret |-> depth + 1, queue |-> queue, visited |-> visited]
    ELSE ScanNeighbors(nbrs, j + 1, depth,
                       Append(queue, [node |-> nbrs[j], depth |-> depth + 1]),
                       visited \cup {nbrs[j]}, targets)

\* the while-loop of bfs_shortest_path
RECURSIVE BfsLoop(_, _, _, _)
BfsLoop(queue, visited, targets, adjacency) ==
    IF queue = << >> THEN 0
    ELSE LET cur == Head(queue)
             r   == ScanNeighbors(AdjGet(adjacency, cur.node), 1, cur.depth,
                                  Tail(queue), visited, targets)
         IN  IF r.found THEN r.ret
             ELSE BfsLoop(r.queue, r.visited, targets, adjacency)

bfs_shortest_path(start, targets, adjacency) ==
    IF start \in targets THEN 0
    ELSE BfsLoop(<< [node |-> start, depth |-> 0] >>, {start}, targets, adjacency)

\* the loop with "max_depth = depth": the last spine's distance wins
RECURSIVE MaxDepthOver_last(_, _, _, _)
MaxDepthOver_last(spines, targets, adjacency, max_depth) ==
    IF spines = << >> THEN max_depth
    ELSE MaxDepthOver_last(Tail(spines), targets, adjacency,
                           bfs_shortest_path(Head(spines), targets, adjacency))

\* the loop "for spine in spines: max_depth = max(max_depth, depth)"
RECURSIVE MaxDepthOver(_, _, _, _)
MaxDepthOver(spines, targets, adjacency, max_depth) ==
    IF spines = << >> THEN max_depth
    ELSE LET depth == bfs_shortest_path(Head(spines), targets, adjacency)
         IN  MaxDepthOver(Tail(spines), targets, adjacency,
                          IF depth > max_depth THEN depth ELSE max_depth)

\* the depth computation with the adjacency built before the spine/leaf test
calculate_topology_depth_eager(clab_data) ==
    LET names  == NodeNames(clab_data)
        spines == FilterRole(names, "spine")
        leafs  == FilterRole(names, "leaf")
        links  == Links(clab_data)
    IN  IF ~EndpointsParse(links, Len(links))
        THEN [ok |-> FALSE, val |-> 0]
        ELSE IF spines = << >> \/ leafs = << >>
        THEN [ok |-> TRUE, val |-> 2]
        ELSE [ok |-> TRUE, val |->
                 MaxDepthOver(spines, SeqToSet(leafs),
                              BuildAdjacency(links, 1, << >>), 0) + 1]

calculate_topology_depth(clab_data) ==
    LET names  == NodeNames(clab_data)
        spines == FilterRole(names, "spine")
        leafs  == FilterRole(names, "leaf")
        links  == Links(clab_data)
    IN  IF spines = << >> \/ leafs = << >>
        THEN [ok |-> TRUE, val |-> 2]
        ELSE IF ~EndpointsParse(links, Len(links))
        THEN [ok |-> FALSE, val |-> 0]
        ELSE LET adjacency == BuildAdjacency(links, 1, << >>)
                 max_depth == MaxDepthOver(spines, SeqToSet(leafs), adjacency, 0)
             IN  [ok |-> TRUE, val |-> max_depth + 1]

-----------------------------------------------------------------------------
(* Config context builder *)

RECURSIVE Uniq(_, _)
Uniq(seq, seen) ==
    IF seq = << >> THEN << >>
    ELSE IF Head(seq) \in seen THEN Uniq(Tail(seq), seen)
    ELSE << Head(seq) >> \o Uniq(Tail(seq), seen \cup {Head(seq)})

Reverse(seq) == [i \in 1..Len(seq) |-> seq[Len(seq) + 1 - i]]

\* list(seq): nothing deduplicated
ListOfSet_nodedup(seq) == seq

\* list(set(seq)): the distinct elements, in the iteration order that the
\* process's string hashing gives the set
ListOfSet(seq) == IF hashseed = 0 THEN Uniq(seq, {}) ELSE Reverse(Uniq(seq, {}))

\* [link for link in all_links if determine_device_role(link['remote_device']) == role]
RECURSIVE FilterRemoteRole(_, _)
FilterRemoteRole(all_links, role) ==
    IF all_links = << >> THEN << >>
    ELSE (IF determine_device_role(Head(all_links).remote_device) = role
          THEN << Head(all_links) >> ELSE << >>)
         \o FilterRemoteRole(Tail(all_links), role)

\* the underlay entry of a spine carrying the spine's own end of the /31
SpineUnderlayNeighbor_own(link) ==
    [ip          |-> calculate_p2p_ips(link.link_index, "leaf").peer_ip,
     interface   |-> link.local_interface,
     peer_group  |-> "SPINE_UNDERLAY",
     remote_as   |-> generate_asn(link.remote_device, "leaf"),
     description |-> link.remote_device]

SpineUnderlayNeighbor(link) ==
    [ip          |-> calculate_p2p_ips(link.link_index, "spine").peer_ip,
     interface   |-> link.local_interface,
     peer_group  |-> "SPINE_UNDERLAY",
     remote_as   |-> generate_asn(link.remote_device, "leaf"),
     description |-> link.remote_device]

\* the overlay entry of a spine carrying the router ID of the leaf
SpineEvpnNeighbor_routerid(leaf) ==
    [ip            |-> generate_router_id(leaf, "leaf"),
     remote_as     |-> generate_asn(leaf, "leaf"),
     peer_group    |-> "EVPN_OVERLAY",
     encapsulation |-> "vxlan"]

SpineEvpnNeighbor(leaf) ==
    [ip            |-> generate_vtep_ip(leaf),
     remote_as     |-> generate_asn(leaf, "leaf"),
     peer_group    |-> "EVPN_OVERLAY",
     encapsulation |-> "vxlan"]

SpinePeerGroups(ebgp_multihop) ==
    << [name |-> "SPINE_UNDERLAY", send_community |-> "extended"],
       [name |-> "EVPN_OVERLAY", update_source |-> "Loopback0",
        ebgp_multihop |-> ebgp_multihop, send_community |-> "extended"] >>

generate_spine_config_context(device_name, device_data, clab_data, all_devices) ==
    LET asn           == generate_asn(device_name, "spine")
        ebgp_multihop == calculate_topology_depth(clab_data)
        all_links     == get_device_links(device_name, clab_data)
        leaf_links    == FilterRemoteRole(all_links.val, "leaf")
        unique_leafs  == ListOfSet([i \in 1..Len(leaf_links) |-> leaf_links[i].remote_device])
    IN  IF ~ebgp_multihop.ok \/ ~all_links.ok
        THEN [ok |-> FALSE, val |-> [raised |-> "ValueError"]]
        ELSE [ok |-> TRUE, val |->
              [bgp |->
                 [asn |-> asn, maximum_paths |-> 4, ecmp_paths |-> 4,
                  peer_groups |-> SpinePeerGroups(ebgp_multihop.val),
                  underlay_neighbors |->
                     [i \in 1..Len(leaf_links) |-> SpineUnderlayNeighbor(leaf_links[i])],
                  evpn |-> [neighbors |->
                     [i \in 1..Len(unique_leafs) |-> SpineEvpnNeighbor(unique_leafs[i])]]],
               ntp_servers    |-> << "10.0.0.100", "10.0.0.101" >>,
               dns_servers    |-> << "10.0.0.50", "10.0.0.51" >>,
               syslog_servers |-> << "10.0.0.200" >>]]

LeafUnderlayNeighbor(link) ==
    [ip          |-> calculate_p2p_ips(link.link_index, "leaf").peer_ip,
     interface   |-> link.local_interface,
     peer_group  |-> "LEAF_UNDERLAY",
     remote_as   |-> generate_asn(link.remote_device, "spine"),
     description |-> link.remote_device]

LeafEvpnNeighbor(spine) ==
    [ip            |-> generate_router_id(spine, "spine"),
     remote_as     |-> generate_asn(spine, "spine"),
     peer_group    |-> "EVPN_OVERLAY",
     encapsulation |-> "vxlan"]

\* the table with the VNI offset 1000
VlanVniMappings_thousand ==
    [i \in 1..Len(DEFAULT_VLANS) |->
        [vlan |-> DEFAULT_VLANS[i].vid, vni |-> 1000 + DEFAULT_VLANS[i].vid]]

VlanVniMappings ==
    [i \in 1..Len(DEFAULT_VLANS) |->
        [vlan |-> DEFAULT_VLANS[i].vid, vni |-> 10000 + DEFAULT_VLANS[i].vid]]

\* a peer group list that carries the assumed direct spine-leaf multihop
LeafPeerGroups_default(ebgp_multihop) ==
    << [name |-> "LEAF_UNDERLAY", send_community |-> "extended"],
       [name |-> "EVPN_OVERLAY", update_source |-> "Loopback1",
        ebgp_multihop |-> 2, send_community |-> "extended"] >>

LeafPeerGroups(ebgp_multihop) ==
    << [name |-> "LEAF_UNDERLAY", send_community |-> "extended"],
       [name |-> "EVPN_OVERLAY", update_source |-> "Loopback1",
        ebgp_multihop |-> ebgp_multihop, send_community |-> "extended"] >>

generate_leaf_config_context(device_name, device_data, clab_data, all_devices) ==
    LET asn           == generate_asn(device_name, "leaf")
        ebgp_multihop == calculate_topology_depth(clab_data)
        all_links     == get_device_links(device_name, clab_data)
        spine_links   == FilterRemoteRole(all_links.val, "spine")
        unique_spines == ListOfSet([i \in 1..Len(spine_links) |-> spine_links[i].remote_device])
    IN  IF ~ebgp_multihop.ok \/ ~all_links.ok
        THEN [ok |-> FALSE, val |-> [raised |-> "ValueError"]]
        ELSE [ok |-> TRUE, val |->
              [vxlan |->
                 [vtep_source_interface |-> "Loopback1", udp_port |-> 4789,
                  vlan_vni_mappings |-> VlanVniMappings],
               bgp |->
                 [asn |-> asn, maximum_paths |-> 4, ecmp_paths |-> 4,
                  peer_groups |-> LeafPeerGroups(ebgp_multihop.val),
                  underlay_neighbors |->
                     [i \in 1..Len(spine_links) |-> LeafUnderlayNeighbor(spine_links[i])],
                  evpn |-> [neighbors |->
                     [i \in 1..Len(unique_spines) |-> LeafEvpnNeighbor(unique_spines[i])]]],
               ntp_servers    |-> << "10.0.0.100", "10.0.0.101" >>,
               dns_servers    |-> << "10.0.0.50", "10.0.0.51" >>,
               syslog_servers |-> << "10.0.0.200" >>]]

-----------------------------------------------------------------------------
(* Inputs: the topologies handed to the planner harness *)

\* link.get('labels', {}): mode is None when absent, vlan is 0 when absent
NoLabels == [mode |-> None, vlan |-> 0]

Labels(mode, vlan) == [mode |-> mode, vlan |-> vlan]

LabelledLink(e1, e2, labels) == [endpoints |-> << e1, e2 >>, labels |-> labels]

Link(e1, e2) == [endpoints |-> << e1, e2 >>, labels |-> NoLabels]

Node(name, kind) == [name |-> name, kind |-> kind, mgmt_ipv4 |-> None, exec |-> << >>]

\* all sequences over S of length at most n
RECURSIVE SeqsUpTo(_, _)
SeqsUpTo(S, n) ==
    IF n = 0 THEN { << >> }
    ELSE LET shorter == SeqsUpTo(S, n - 1)
         IN  shorter \cup { Append(q, x) : q \in {r \in shorter : Len(r) = n - 1}, x \in S }

PlanLinkChoices ==
    { Link("spine01:eth1", "leaf01:eth1"),
      Link("leaf01:eth2", "spine01:eth2"),
      Link("leaf01:eth3", "spine02:eth1"),
      Link("spine02:eth3", "border01:eth3"),
      Link("border01:eth2", "leaf01:eth4"),
      Link("spine02:eth4", "spine02:eth5"),
      Link("spine02-eth5", "leaf02:eth5") }

PlanNodeLists ==
    { << Node("spine01", "ceos"), Node("spine02", "ceos"), Node("leaf01", "ceos"),
         Node("leaf02", "ceos"), Node("border01", "ceos") >>,
      << Node("leaf01", "ceos"), Node("border01", "ceos") >>,
      << Node("spine01", "ceos"), Node("border01", "ceos") >> }

\* spine01, spine02, leaf01, leaf02 with every leaf linked to every spine
FullMesh ==
    [name  |-> "lab", skip_config_context |-> FALSE, mgmt |-> "172.20.20.0/24",
     nodes |-> << Node("spine01", "ceos"), Node("spine02", "ceos"),
                  Node("leaf01", "ceos"), Node("leaf02", "ceos") >>,
     links |-> << Link("spine01:eth1", "leaf01:eth1"), Link("spine01:eth2", "leaf02:eth1"),
                  Link("spine02:eth1", "leaf01:eth2"), Link("spine02:eth2", "leaf02:eth2") >>]

PlanTopologies ==
    { [name |-> "lab", skip_config_context |-> FALSE, mgmt |-> "172.20.20.0/24",
       nodes |-> n, links |-> l] :
         n \in PlanNodeLists, l \in SeqsUpTo(PlanLinkChoices, MaxLinks) }
    \cup { FullMesh }

-----------------------------------------------------------------------------
(* Inputs: the topologies handed to the reconciliation run *)

RunNodes ==
    << [name |-> "spine01", kind |-> "ceos", mgmt_ipv4 |-> "172.20.20.11", exec |-> << >>],
       [name |-> "leaf01", kind |-> "ceos", mgmt_ipv4 |-> None, exec |-> << >>],
       [name |-> "host01", kind |-> "linux", mgmt_ipv4 |-> None,
        exec |-> << << "ip", "addr", "add", "192.168.10.1/24", "dev", "eth1" >> >>],
       [name |-> "border01", kind |-> "ceos", mgmt_ipv4 |-> None, exec |-> << >>] >>

RunLinkChoices ==
    { Link("spine01:eth1", "leaf01:eth11"),
      Link("leaf01:eth12", "spine01:eth2"),
      LabelledLink("leaf01:eth3", "host01:eth1", Labels("access", 10)),
      LabelledLink("host01:eth2", "leaf01:eth3", Labels("access", 40)),
      LabelledLink("host01:eth2", "leaf01:eth4", Labels("trunk", 10)),
      LabelledLink("host01:eth3", "spine01:eth1", Labels("access", 20)),
      LabelledLink("leaf01:eth5", "border01:eth1", Labels("access", 10)),
      Link("leaf02:eth1", "spine01:eth4"),
      Link("leaf01-eth9", "spine01:eth9") }

MgmtSubnets == {"172.20.20.0/24", "172.20.20.0", None}

RunTopologies ==
    { [name |-> "lab", skip_config_context |-> FALSE, mgmt |-> m,
       nodes |-> RunNodes, links |-> l] :
         m \in MgmtSubnets, l \in SeqsUpTo(RunLinkChoices, MaxRunLinks) }

-----------------------------------------------------------------------------
(* State of the run and of the inventory *)

NoContext == [none |-> TRUE]

EmptyMap == [x \in {} |-> x]

EmptyInventory ==
    [manufacturers |-> {}, device_types |-> {}, device_roles |-> {}, sites |-> {},
     custom_fields |-> {}, cables |-> {},
     vlans        |-> EmptyMap,   \* vid -> name (one site)
     devices      |-> EmptyMap,   \* name -> device record
     interfaces   |-> EmptyMap,   \* <<device, name>> -> interface record
     ip_addresses |-> EmptyMap,   \* address -> IP address record
     created      |-> << >>]      \* the create calls the inventory accepted, in order

IdlePlan == [op |-> "idle", device |-> "", ok |-> TRUE, depth |-> 0, ctx |-> NoContext]

IdleLast == [item |-> "", index |-> 0, rejected |-> {}, outcome |-> ""]

-----------------------------------------------------------------------------
(* Inventory operations.  An execution state st = [nb, rej, used] carries the  *)
(* inventory, the kinds of operation the inventory rejects (RequestError)      *)
(* during the current loop iteration, and the rejections that were hit.        *)

DEVICE_TYPE_MAP(kind) ==
    CASE kind = "ceos" -> "Arista cEOS" [] kind = "linux" -> "Linux Host"
      [] kind = "alpine" -> "Alpine Linux" [] OTHER -> kind

MANUFACTURER_MAP(kind) ==
    CASE kind = "ceos" -> "Arista" [] kind = "linux" -> "Generic"
      [] kind = "alpine" -> "Alpine" [] OTHER -> "Generic"

ANSIBLE_NETWORK_OS_MAP(kind) ==
    CASE kind = "ceos" -> "eos" [] kind = "linux" -> "linux"
      [] kind = "alpine" -> "linux" [] OTHER -> "linux"

Rejects(st, point) == point \in st.rej

Hit(st, point) == [st EXCEPT !.used = @ \cup {point}]

\* endpoint.create(...) accepted by the inventory
Created(inv, kind, key) == [inv EXCEPT !.created = Append(@, << kind, key >>)]

\* create(name=...) without the lookup
GetOrCreateNamed_create(st, field, name) ==
    IF Rejects(st, field) THEN [st |-> Hit(st, field), ok |-> FALSE]
    ELSE [st |-> [st EXCEPT !.nb = Created([@ EXCEPT ![field] = @ \cup {name}], field, name)],
          ok |-> TRUE]

\* get(name=...) then create-if-absent on one of the name-keyed endpoints
GetOrCreateNamed(st, field, name) ==
    IF Rejects(st, field) THEN [st |-> Hit(st, field), ok |-> FALSE]
    ELSE IF name \in st.nb[field] THEN [st |-> st, ok |-> TRUE]
    ELSE [st |-> [st EXCEPT !.nb = Created([@ EXCEPT ![field] = @ \cup {name}], field, name)],
          ok |-> TRUE]

get_or_create_manufacturer(st, name) == GetOrCreateNamed(st, "manufacturers", name)

get_or_create_device_type(st, kind) ==
    GetOrCreateNamed(st, "device_types", DEVICE_TYPE_MAP(kind))

get_or_create_site(st, name) == GetOrCreateNamed(st, "sites", name)

get_or_create_device_role(st, role_name) == GetOrCreateNamed(st, "device_roles", role_name)

ensure_custom_field_exists(st) == GetOrCreateNamed(st, "custom_fields", "ansible_network_os")

\* returns the VLAN id, or None (ok = FALSE) when the inventory rejects the call
get_or_create_vlan(st, vlan_id, vlan_name) ==
    IF Rejects(st, "vlans.get") THEN [st |-> Hit(st, "vlans.get"), ok |-> FALSE]
    ELSE IF vlan_id \in DOMAIN st.nb.vlans THEN [st |-> st, ok |-> TRUE]
    ELSE IF Rejects(st, "vlans.create") THEN [st |-> Hit(st, "vlans.create"), ok |-> FALSE]
    ELSE [st |-> [st EXCEPT !.nb = Created([@ EXCEPT !.vlans = (vlan_id :> vlan_name) @@ @],
                                           "vlans", vlan_id)],
          ok |-> TRUE]

NewInterface(type) ==
    [type |-> type, description |-> "", mode |-> None, untagged_vlan |-> 0]

\* nb.dcim.interfaces.get(...) then create-if-absent; raises when rejected
GetOrCreateInterfaceRaw(st, device, intf_name, type) ==
    LET key == << device, intf_name >>
    IN  IF Rejects(st, "interfaces") THEN [st |-> Hit(st, "interfaces"), ok |-> FALSE]
        ELSE IF key \in DOMAIN st.nb.interfaces THEN [st |-> st, ok |-> TRUE]
        ELSE [st |-> [st EXCEPT !.nb = Created([@ EXCEPT !.interfaces =
                                                    (key :> NewInterface(type)) @@ @],
                                               "interfaces", key)],
              ok |-> TRUE]

\* returns the interface, or None (ok = FALSE) when the inventory rejects the call
get_or_create_interface(st, device, intf_name) ==
    LET intf_type == IF StartsWith(intf_name, "eth") THEN "1000base-t"
                     ELSE IF StartsWith(intf_name, "et") THEN "10gbase-x-sfpp"
                     ELSE "1000base-t"
    IN  GetOrCreateInterfaceRaw(st, device, intf_name, intf_type)

\* errors are logged and swallowed: the result is an execution state
assign_interface_ip(st, interface, ip_with_mask, description) ==
    IF Rejects(st, "ip_addresses") THEN Hit(st, "ip_addresses")
    ELSE IF ip_with_mask \notin DOMAIN st.nb.ip_addresses
    THEN [st EXCEPT !.nb = Created([@ EXCEPT !.ip_addresses =
                (ip_with_mask :> [assigned_object_id |-> interface,
                                  description |-> description]) @@ @],
                "ip_addresses", ip_with_mask)]
    ELSE IF st.nb.ip_addresses[ip_with_mask].assigned_object_id # interface
    THEN [st EXCEPT !.nb.ip_addresses[ip_with_mask] =
                [assigned_object_id |-> interface,
                 description |-> IF description # "" THEN description ELSE @.description]]
    ELSE st

\* errors are logged and swallowed
create_loopback_interface(st, device, loopback_id, ip_address) ==
    LET loopback_name == "Loopback" \o ToString(loopback_id)
        r == GetOrCreateInterfaceRaw(st, device, loopback_name, "virtual")
    IN  IF ~r.ok THEN r.st
        ELSE assign_interface_ip(r.st, << device, loopback_name >>, ip_address,
                                 loopback_name \o " IP")

RECURSIVE CreateVlansFrom(_, _)
CreateVlansFrom(st, i) ==
    IF i > Len(DEFAULT_VLANS) THEN st
    ELSE CreateVlansFrom(get_or_create_vlan(st, DEFAULT_VLANS[i].vid,
                                            DEFAULT_VLANS[i].name).st, i + 1)

assign_vlans_to_device(st, device) == CreateVlansFrom(st, 1)

\* device.<field> = value; device.save(): errors are logged and swallowed
SaveDevice(st, device, field, value) ==
    IF Rejects(st, "devices.save") THEN Hit(st, "devices.save")
    ELSE [st EXCEPT !.nb.devices[device][field] = value]

set_device_custom_fields(st, device, ansible_network_os) ==
    SaveDevice(st, device, "custom_fields", ansible_network_os)

apply_config_context(st, device, config_context) ==
    SaveDevice(st, device, "local_context_data", config_context)

IsDigits(s) == Len(s) > 0 /\ \A i \in 1..Len(s) : CharAt(s, i) \in Digits

IsDottedQuad(s) ==
    LET parts == Split(s, ".")
    IN  Len(parts) = 4 /\ \A i \in 1..4 : IsDigits(parts[i])

\* (\d+\.\d+\.\d+\.\d+/\d+) matches the whole word
IsIpWithPrefix(w) ==
    LET parts == Split(w, "/")
    IN  Len(parts) = 2 /\ IsDottedQuad(parts[1]) /\ IsDigits(parts[2])

create_management_ip(st, device, mgmt_ip, prefix_len) ==
    LET ip_addr == IF Len(Split(mgmt_ip, "/")) = 1
                   THEN mgmt_ip \o "/" \o prefix_len ELSE mgmt_ip
    IN  IF ~IsIpWithPrefix(ip_addr) THEN st
        ELSE IF Rejects(st, "ip_addresses") THEN Hit(st, "ip_addresses")
        ELSE IF ip_addr \in DOMAIN st.nb.ip_addresses THEN st
        ELSE LET r == get_or_create_interface(st, device, "mgmt0")
             IN  IF ~r.ok THEN r.st
                 ELSE SaveDevice(
                        [r.st EXCEPT !.nb = Created([@ EXCEPT !.ip_addresses =
                            (ip_addr :> [assigned_object_id |-> << device, "mgmt0" >>,
                                         description |-> "Management IP for " \o device]) @@ @],
                            "ip_addresses", ip_addr)],
                        device, "primary_ip4", ip_addr)

\* the first match of "ip addr add <ip>/<prefix> dev <interface>" in a command,
\* a command being its list of words; i = 0 when there is none
ExecMatch(cmd) ==
    LET hits == { i \in 1..(Len(cmd) - 5) :
                    /\ cmd[i] = "ip" /\ cmd[i + 1] = "addr" /\ cmd[i + 2] = "add"
                    /\ IsIpWithPrefix(cmd[i + 3]) /\ cmd[i + 4] = "dev" }
    IN  IF hits = {} THEN 0 ELSE CHOOSE i \in hits : \A j \in hits : i <= j

RECURSIVE ExecFrom(_, _, _, _)
ExecFrom(st, device, exec_commands, k) ==
    IF k > Len(exec_commands) THEN st
    ELSE LET cmd == exec_commands[k]
             i   == ExecMatch(cmd)
         IN  IF i = 0 THEN ExecFrom(st, device, exec_commands, k + 1)
             ELSE LET r == get_or_create_interface(st, device, cmd[i + 5])
                  IN  ExecFrom(IF r.ok
                               THEN assign_interface_ip(r.st, << device, cmd[i + 5] >>,
                                        cmd[i + 3], "Container data IP from exec")
                               ELSE r.st,
                               device, exec_commands, k + 1)

parse_exec_ip_assignments(st, device, exec_commands) ==
    ExecFrom(st, device, exec_commands, 1)

\* intf1.cable or intf2.cable
HasCable(inv, key) == \E c \in inv.cables : key \in c

\* errors are logged and swallowed
create_cable(st, intf1, intf2) ==
    IF HasCable(st.nb, intf1) \/ HasCable(st.nb, intf2) THEN st
    ELSE IF Rejects(st, "cables") THEN Hit(st, "cables")
    ELSE [st EXCEPT !.nb = Created([@ EXCEPT !.cables = @ \cup { {intf1, intf2} }],
                                   "cables", << intf1, intf2 >>)]

-----------------------------------------------------------------------------
(* Planner harness: the pure functions applied to a topology *)

InitPlan ==
    /\ clab \in PlanTopologies
    /\ hashseed \in {0, 1}
    /\ pc = "plan"
    /\ node_index = 0
    /\ link_index = 0
    /\ devices = {}
    /\ successful_links = 0
    /\ nb = EmptyInventory
    /\ failures = 0
    /\ last = IdleLast
    /\ run = 1
    /\ plan = IdlePlan

run_vars == <<clab, hashseed, pc, node_index, link_index, devices,
              successful_links, nb, failures, last, run>>

PlanDepth ==
    /\ pc = "plan"
    /\ plan.op = "idle"
    /\ LET r == calculate_topology_depth(clab)
       IN  plan' = [op |-> "depth", device |-> "", ok |-> r.ok, depth |-> r.val,
                    ctx |-> NoContext]
    /\ UNCHANGED run_vars

PlanSpineContext ==
    /\ pc = "plan"
    /\ plan.op = "idle"
    /\ \E i \in 1..Len(clab.nodes) :
          /\ determine_device_role(clab.nodes[i].name) = "spine"
          /\ LET r == generate_spine_config_context(clab.nodes[i].name, clab.nodes[i],
                                                    clab, clab.nodes)
             IN  plan' = [op |-> "context", device |-> clab.nodes[i].name, ok |-> r.ok,
                          depth |-> 0, ctx |-> r.val]
    /\ UNCHANGED run_vars

PlanLeafContext ==
    /\ pc = "plan"
    /\ plan.op = "idle"
    /\ \E i \in 1..Len(clab.nodes) :
          /\ determine_device_role(clab.nodes[i].name) = "leaf"
          /\ LET r == generate_leaf_config_context(clab.nodes[i].name, clab.nodes[i],
                                                   clab, clab.nodes)
             IN  plan' = [op |-> "context", device |-> clab.nodes[i].name, ok |-> r.ok,
                          depth |-> 0, ctx |-> r.val]
    /\ UNCHANGED run_vars

NextPlan == PlanDepth \/ PlanSpineContext \/ PlanLeafContext

SpecPlan == InitPlan /\ [][NextPlan]_vars

-----------------------------------------------------------------------------
(* Addressing harness: the naming functions applied to one device name *)

\* the beginnings of device names, none ending in a digit, each with the role
\* that a case-insensitive prefix match on spine, leaf, border gives the name
Stems ==
    { [stem |-> "spine", role |-> "spine"],     [stem |-> "leaf", role |-> "leaf"],
      [stem |-> "border", role |-> "border"],   [stem |-> "host", role |-> "unknown"],
      [stem |-> "SPINE", role |-> "spine"],     [stem |-> "Leaf-", role |-> "leaf"],
      [stem |-> "BoRdEr", role |-> "border"],   [stem |-> "leaf1-", role |-> "leaf"],
      [stem |-> "spine2a", role |-> "spine"],   [stem |-> "borderleaf", role |-> "border"],
      [stem |-> "myspine", role |-> "unknown"], [stem |-> "lea", role |-> "unknown"],
      [stem |-> "spin", role |-> "unknown"],    [stem |-> "", role |-> "unknown"] }

\* the ends of device names: no digit, a number, a number after a zero
Suffixes ==
    { [digits |-> "", number |-> 0] }
    \cup { [digits |-> ToString(n), number |-> n] : n \in 0..MaxOrdinal }
    \cup { [digits |-> "0" \o ToString(n), number |-> n] : n \in 0..MaxOrdinal }

\* a device name with what it was put together from
NamedDevice(s, x) ==
    [name |-> s.stem \o x.digits, stem |-> s.stem, digits |-> x.digits,
     number |-> x.number, prefix_role |-> s.role]

AddrInputs == { NamedDevice(s, x) : s \in Stems, x \in Suffixes }

InitAddr ==
    /\ \E d \in AddrInputs :
          /\ clab = [name |-> "lab", skip_config_context |-> FALSE, mgmt |-> "172.20.20.0/24",
                     nodes |-> << Node(d.name, "ceos") >>, links |-> << >>]
          /\ plan = [op |-> "name", device |-> d.name, ok |-> TRUE, depth |-> 0, ctx |-> d]
    /\ hashseed = 0
    /\ pc = "plan"
    /\ node_index = 0
    /\ link_index = 0
    /\ devices = {}
    /\ successful_links = 0
    /\ nb = EmptyInventory
    /\ failures = 0
    /\ last = IdleLast
    /\ run = 1

\* what the naming functions give for a device name, the role being the one
\* that determine_device_role gives, as in create_devices
Addressing(device_name, device_role) ==
    [role       |-> device_role,
     device_num |-> extract_device_number(device_name),
     router_id  |-> generate_router_id(device_name, device_role),
     vtep_ip    |-> generate_vtep_ip(device_name),
     asn        |-> generate_asn(device_name, device_role)]

PlanAddress ==
    /\ pc = "plan"
    /\ plan.op = "name"
    /\ plan' = [plan EXCEPT !.op = "address",
                            !.ctx = @ @@ Addressing(plan.device,
                                                    determine_device_role(plan.device))]
    /\ UNCHANGED run_vars

NextAddr == PlanAddress

SpecAddr == InitAddr /\ [][NextAddr]_vars


-----------------------------------------------------------------------------
(* The reconciliation run: main, create_devices, create_interfaces_and_links *)

\* any(prefix in node_lower for prefix in [...])
RECURSIVE Contains(_, _)
Contains(s, sub) ==
    IF Len(s) < Len(sub) THEN FALSE
    ELSE StartsWith(s, sub) \/ Contains(SubSeq(s, 2, Len(s)), sub)

DeviceRoleName(node_name, kind) ==
    IF kind = "ceos"
    THEN LET detected_role == determine_device_role(node_name)
         IN  IF detected_role = "spine" THEN "Spine"
             ELSE IF detected_role = "leaf" THEN "Leaf"
             ELSE "Network Device"
    ELSE IF kind \in {"linux", "alpine"}
    THEN IF \E prefix \in {"server", "host", "client", "alpine"} :
               Contains(Lower(node_name), prefix)
         THEN "Server" ELSE "Host"
    ELSE "Host"

NewDevice(device_type, role, site) ==
    [device_type |-> device_type, role |-> role, site |-> site,
     custom_fields |-> "", local_context_data |-> NoContext, primary_ip4 |-> ""]

\* nb.dcim.devices.get(name=...) then create-if-absent; raises when rejected
GetOrCreateDevice(st, node_name, device_type, role, site) ==
    IF Rejects(st, "devices") THEN [st |-> Hit(st, "devices"), ok |-> FALSE]
    ELSE IF node_name \in DOMAIN st.nb.devices THEN [st |-> st, ok |-> TRUE]
    ELSE [st |-> [st EXCEPT !.nb = Created([@ EXCEPT !.devices =
                        (node_name :> NewDevice(device_type, role, site)) @@ @],
                        "devices", node_name)],
          ok |-> TRUE]

\* "if kind == 'ceos': set_device_custom_fields(nb, device, ansible_os)"
CustomFieldsStep(st, node) ==
    IF node.kind = "ceos"
    THEN set_device_custom_fields(st, node.name, ANSIBLE_NETWORK_OS_MAP(node.kind))
    ELSE st

\* Loopback0 for spines and leafs; Loopback1 and the VLANs for leafs
LoopbacksStep(st, node_name, device_role) ==
    IF device_role \notin {"spine", "leaf"} THEN st
    ELSE IF device_role = "leaf"
    THEN assign_vlans_to_device(
             create_loopback_interface(
                 create_loopback_interface(st, node_name, 0,
                     generate_router_id(node_name, device_role) \o "/32"),
                 node_name, 1, generate_vtep_ip(node_name) \o "/32"),
             node_name)
    ELSE create_loopback_interface(st, node_name, 0,
             generate_router_id(node_name, device_role) \o "/32")

\* the config context of a spine or of a leaf
GenerateContext(node, device_role, clab_data) ==
    IF device_role = "spine"
    THEN generate_spine_config_context(node.name, node, clab_data, clab_data.nodes)
    ELSE generate_leaf_config_context(node.name, node, clab_data, clab_data.nodes)

\* "if mgmt_ip: create_management_ip(...)"
ManagementStep(st, node, mgmt_prefix_len) ==
    IF node.mgmt_ipv4 # None
    THEN create_management_ip(st, node.name, node.mgmt_ipv4, mgmt_prefix_len)
    ELSE st

\* "if exec_commands and kind in ['linux', 'alpine']: parse_exec_ip_assignments(...)"
ExecStep(st, node) ==
    IF node.exec # << >> /\ node.kind \in {"linux", "alpine"}
    THEN parse_exec_ip_assignments(st, node.name, node.exec)
    ELSE st

\* the config context is generated (which may raise) and applied, then the
\* management IP and the exec commands are handled
ContextStep(st, node, wants_context, config_context, mgmt_prefix_len) ==
    IF wants_context /\ ~config_context.ok
    THEN [st |-> st, stored |-> TRUE, raised |-> TRUE]
    ELSE [st |-> ExecStep(
                   ManagementStep(
                     IF wants_context
                     THEN apply_config_context(st, node.name, config_context.val)
                     ELSE st,
                     node, mgmt_prefix_len),
                   node),
          stored |-> TRUE, raised |-> FALSE]

\* the loop body of create_devices from "devices[node_name] = device" on
AfterDeviceStored(st, node, device_role, clab_data, mgmt_prefix_len) ==
    ContextStep(LoopbacksStep(CustomFieldsStep(st, node), node.name, device_role),
                node,
                ~clab_data.skip_config_context /\ device_role \in {"spine", "leaf"},
                GenerateContext(node, device_role, clab_data),
                mgmt_prefix_len)

\* the device type is looked up once the manufacturer was obtained
WithDeviceType(r, kind) == IF r.ok THEN get_or_create_device_type(r.st, kind) ELSE r

\* the device role is looked up once the device type was obtained
WithDeviceRole(r, role_name) == IF r.ok THEN get_or_create_device_role(r.st, role_name) ELSE r

\* the device is looked up once the device role was obtained
WithDevice(r, node_name, device_type, role_name, site) ==
    IF r.ok THEN GetOrCreateDevice(r.st, node_name, device_type, role_name, site) ELSE r

\* the exception of a lookup ends the iteration; otherwise the device is stored
StoreDevice(r, node, clab_data, mgmt_prefix_len) ==
    IF ~r.ok THEN [st |-> r.st, stored |-> FALSE, raised |-> TRUE]
    ELSE AfterDeviceStored(r.st, node, determine_device_role(node.name), clab_data,
                           mgmt_prefix_len)

\* one iteration of the loop of create_devices
CreateDeviceBody(st, node, role_name, clab_data, mgmt_prefix_len) ==
    StoreDevice(
        WithDevice(
            WithDeviceRole(
                WithDeviceType(get_or_create_manufacturer(st, MANUFACTURER_MAP(node.kind)),
                               node.kind),
                role_name),
            node.name, DEVICE_TYPE_MAP(node.kind), role_name, clab_data.name),
        node, clab_data, mgmt_prefix_len)

\* intf1.save(); intf2.save(): raises when rejected
SaveInterfaces(st, changes) ==
    IF Rejects(st, "interfaces.save") THEN [st |-> Hit(st, "interfaces.save"), ok |-> FALSE]
    ELSE [st |-> [st EXCEPT !.nb.interfaces =
                     [k \in DOMAIN @ |-> IF k \in DOMAIN changes THEN changes[k] ELSE @[k]]],
          ok |-> TRUE]

\* intf1.description = f"to_{device2_name}"; intf2.description = f"to_{device1_name}"
Described(inv, intf1, intf2) ==
    (intf1 :> [inv.interfaces[intf1] EXCEPT !.description = "to_" \o intf2[1]])
    @@ (intf2 :> [inv.interfaces[intf2] EXCEPT !.description = "to_" \o intf1[1]])

\* the two assign_interface_ip calls of the spine-leaf branch
FabricAssign(saved, spine_intf, leaf_intf, idx) ==
    IF ~saved.ok THEN saved
    ELSE [st |-> assign_interface_ip(
                    assign_interface_ip(saved.st, spine_intf,
                        calculate_p2p_ips(idx, "spine").local_ip,
                        "P2P link " \o ToString(idx)),
                    leaf_intf, calculate_p2p_ips(idx, "leaf").local_ip,
                    "P2P link " \o ToString(idx)),
          ok |-> TRUE]

\* the spine-leaf branch with the first endpoint taken for the spine
FabricLinkBranch_byposition(st, idx, intf1, intf2, role1) ==
    FabricAssign(SaveInterfaces(st, Described(st.nb, intf1, intf2)), intf1, intf2, idx)

\* the spine-leaf branch
FabricLinkBranch(st, idx, intf1, intf2, role1) ==
    FabricAssign(SaveInterfaces(st, Described(st.nb, intf1, intf2)),
                 IF role1 = "spine" THEN intf1 ELSE intf2,
                 IF role1 = "spine" THEN intf2 ELSE intf1,
                 idx)

\* vlan = nb.ipam.vlans.get(...); if not vlan: vlan = get_or_create_vlan(...)
FindVlan(st, vlan_id) ==
    IF vlan_id \in DOMAIN st.nb.vlans THEN [st |-> st, ok |-> TRUE]
    ELSE get_or_create_vlan(st, vlan_id, "VLAN" \o ToString(vlan_id))

\* "if vlan:" the leaf interface becomes an access port; then both saves
AccessSave(v, described, leaf_intf, vlan_id) ==
    SaveInterfaces(v.st,
        IF v.ok
        THEN [described EXCEPT ![leaf_intf] =
                [@ EXCEPT !.mode = "access", !.untagged_vlan = vlan_id]]
        ELSE described)

\* the leaf-to-host branch with the first endpoint taken for the leaf
HostLinkBranch_first(st, link, intf1, intf2, role1) ==
    IF link.labels.mode = "access" /\ link.labels.vlan # 0
    THEN IF Rejects(st, "sites") THEN [st |-> Hit(st, "sites"), ok |-> FALSE]
         ELSE IF Rejects(st, "vlans.get") THEN [st |-> Hit(st, "vlans.get"), ok |-> FALSE]
         ELSE AccessSave(FindVlan(st, link.labels.vlan), Described(st.nb, intf1, intf2),
                         intf1, link.labels.vlan)
    ELSE SaveInterfaces(st, Described(st.nb, intf1, intf2))

\* the leaf-to-host branch
HostLinkBranch(st, link, intf1, intf2, role1) ==
    IF link.labels.mode = "access" /\ link.labels.vlan # 0
    THEN IF Rejects(st, "sites") THEN [st |-> Hit(st, "sites"), ok |-> FALSE]
         ELSE IF Rejects(st, "vlans.get") THEN [st |-> Hit(st, "vlans.get"), ok |-> FALSE]
         ELSE AccessSave(FindVlan(st, link.labels.vlan), Described(st.nb, intf1, intf2),
                         IF role1 = "leaf" THEN intf1 ELSE intf2, link.labels.vlan)
    ELSE SaveInterfaces(st, Described(st.nb, intf1, intf2))

\* intf2 = get_or_create_interface(...) after intf1; both: "intf1 and intf2"
ThenInterface(i1, intf2) ==
    [st   |-> get_or_create_interface(i1.st, intf2[1], intf2[2]).st,
     both |-> i1.ok /\ get_or_create_interface(i1.st, intf2[1], intf2[2]).ok]

\* the if / elif with every link of a leaf that is no fabric link taken for a
\* host-facing link
LinkBranch_anyleaf(r, idx, link, intf1, intf2, role1, role2) ==
    IF r.both /\ {role1, role2} = {"spine", "leaf"}
    THEN FabricLinkBranch(r.st, idx, intf1, intf2, role1)
    ELSE IF r.both /\ "leaf" \in {role1, role2}
    THEN HostLinkBranch(r.st, link, intf1, intf2, role1)
    ELSE [st |-> r.st, ok |-> TRUE]

\* the if / elif on the role pair of the link
LinkBranch(r, idx, link, intf1, intf2, role1, role2) ==
    IF r.both /\ {role1, role2} = {"spine", "leaf"}
    THEN FabricLinkBranch(r.st, idx, intf1, intf2, role1)
    ELSE IF r.both /\ "leaf" \in {role1, role2} /\ "unknown" \in {role1, role2}
    THEN HostLinkBranch(r.st, link, intf1, intf2, role1)
    ELSE [st |-> r.st, ok |-> TRUE]

\* "if intf1 and intf2: create_cable(...); successful_links += 1", unless the
\* branch raised
LinkOutcome(branch, both, intf1, intf2) ==
    IF ~branch.ok
    THEN [st |-> branch.st, counted |-> FALSE, outcome |-> "raised"]
    ELSE IF both
    THEN [st |-> create_cable(branch.st, intf1, intf2),
          counted |-> TRUE, outcome |-> "cabled"]
    ELSE [st |-> branch.st, counted |-> FALSE, outcome |-> "no interface"]

\* the iteration once both interfaces were asked for
ClassifyLink(r, idx, link, intf1, intf2) ==
    LinkOutcome(LinkBranch(r, idx, link, intf1, intf2,
                           determine_device_role(intf1[1]), determine_device_role(intf2[1])),
                r.both, intf1, intf2)

\* the iteration with the test "if not device1 and not device2"
ProcessLinkBody_bothabsent(st, idx, link, e1, e2, devs) ==
    IF ~e1.ok \/ ~e2.ok THEN [st |-> st, counted |-> FALSE, outcome |-> "ValueError"]
    ELSE IF e1.dev \notin devs /\ e2.dev \notin devs
    THEN [st |-> st, counted |-> FALSE, outcome |-> "no device"]
    ELSE ClassifyLink(
             ThenInterface(get_or_create_interface(st, e1.dev, e1.intf),
                           << e2.dev, e2.intf >>),
             idx, link, << e1.dev, e1.intf >>, << e2.dev, e2.intf >>)

\* one iteration of the loop of create_interfaces_and_links; idx is link_index
ProcessLinkBody(st, idx, link, e1, e2, devs) ==
    IF ~e1.ok \/ ~e2.ok THEN [st |-> st, counted |-> FALSE, outcome |-> "ValueError"]
    ELSE IF e1.dev \notin devs \/ e2.dev \notin devs
    THEN [st |-> st, counted |-> FALSE, outcome |-> "no device"]
    ELSE ClassifyLink(
             ThenInterface(get_or_create_interface(st, e1.dev, e1.intf),
                           << e2.dev, e2.intf >>),
             idx, link, << e1.dev, e1.intf >>, << e2.dev, e2.intf >>)

\* the inventory operations that main, one iteration of create_devices and one
\* iteration of create_interfaces_and_links call
StartPoints == {"sites", "custom_fields"}

DevicePoints ==
    {"manufacturers", "device_types", "device_roles", "devices", "devices.save",
     "interfaces", "ip_addresses", "vlans.get", "vlans.create"}

LinkPoints ==
    {"interfaces", "interfaces.save", "ip_addresses", "sites", "vlans.get",
     "vlans.create", "cables"}

\* the subsets of S with at most k elements
RECURSIVE SubsetsUpTo(_, _)
SubsetsUpTo(S, k) ==
    IF k <= 0 THEN { {} }
    ELSE LET T == SubsetsUpTo(S, k - 1)
         IN  T \cup { t \cup {p} : t \in T, p \in S }

\* the operations the inventory may reject (RequestError) during one loop iteration
RejectionSets(points) == SubsetsUpTo(points, MaxFailures - failures)

\* where main() is after the device loop reached index n
AfterNodes(n) ==
    IF n < Len(clab.nodes) THEN "devices"
    ELSE IF Len(clab.links) > 0 THEN "links" ELSE "done"

\* mgmt_subnet.split('/')[-1]
MgmtPrefixLen == LET parts == Split(clab.mgmt, "/") IN parts[Len(parts)]

\* the preamble of create_devices with only the test "if not mgmt_subnet"
MgmtSubnetError_missingonly(mgmt_subnet) == mgmt_subnet = None \/ mgmt_subnet = ""

\* "if not mgmt_subnet: raise ValueError"; "if '/' not in mgmt_subnet: raise ValueError"
MgmtSubnetError(mgmt_subnet) ==
    \/ mgmt_subnet = None \/ mgmt_subnet = ""
    \/ Len(Split(mgmt_subnet, "/")) = 1

\* main up to the device loop: site, custom field, the management subnet
Start ==
    /\ pc = "start"
    /\ \E F \in RejectionSets(StartPoints) :
          LET r1 == get_or_create_site([nb |-> nb, rej |-> F, used |-> {}], clab.name)
              r2 == ensure_custom_field_exists(r1.st)
              end == IF r1.ok THEN r2.st ELSE r1.st
              fatal == ~r1.ok \/ ~r2.ok \/ MgmtSubnetError(clab.mgmt)
          IN  /\ F = end.used
              /\ nb' = end.nb
              /\ failures' = failures + Cardinality(F)
              /\ pc' = IF fatal THEN "fatal" ELSE AfterNodes(0)
              /\ last' = [item |-> "start", index |-> 0, rejected |-> F,
                          outcome |-> IF fatal THEN "fatal" ELSE "ok"]
    /\ UNCHANGED <<clab, hashseed, node_index, link_index, devices, successful_links,
                   run, plan>>

\* an except clause that lets the exception go on to main
AfterDeviceIteration_abort(r, n) == IF r.raised THEN "fatal" ELSE AfterNodes(n)

\* "except Exception as e: logger.error(...); continue": the loop goes on
\* whether or not the iteration raised
AfterDeviceIteration(r, n) == AfterNodes(n)

\* what one iteration of the loop of create_devices leaves behind
CreateDeviceEffect(F, node, r) ==
    /\ F = r.st.used
    /\ pc' = AfterDeviceIteration(r, node_index + 1)
    /\ nb' = r.st.nb
    /\ devices' = IF r.stored THEN devices \cup {node.name} ELSE devices
    /\ failures' = failures + Cardinality(F)
    /\ last' = [item |-> "device", index |-> node_index, rejected |-> F,
                outcome |-> IF r.raised THEN "raised" ELSE "ok"]

\* create_devices: one iteration of "for node_name, node_data in nodes.items()"
CreateDevice ==
    /\ pc = "devices"
    /\ node_index < Len(clab.nodes)
    /\ \E F \in RejectionSets(DevicePoints) :
          CreateDeviceEffect(F, clab.nodes[node_index + 1],
              CreateDeviceBody([nb |-> nb, rej |-> F, used |-> {}],
                               clab.nodes[node_index + 1],
                               DeviceRoleName(clab.nodes[node_index + 1].name,
                                              clab.nodes[node_index + 1].kind),
                               clab, MgmtPrefixLen))
    /\ node_index' = node_index + 1
    /\ UNCHANGED <<clab, hashseed, link_index, successful_links, run, plan>>

\* what one iteration of the loop of create_interfaces_and_links leaves behind
ProcessLinkEffect(F, r) ==
    /\ F = r.st.used
    /\ nb' = r.st.nb
    /\ successful_links' = IF r.counted THEN successful_links + 1 ELSE successful_links
    /\ failures' = failures + Cardinality(F)
    /\ last' = [item |-> "link", index |-> link_index, rejected |-> F,
                outcome |-> r.outcome]

\* create_interfaces_and_links: one iteration of "for link_index, link in enumerate(links)"
ProcessLink ==
    /\ pc = "links"
    /\ link_index < Len(clab.links)
    /\ \E F \in RejectionSets(LinkPoints) :
          ProcessLinkEffect(F,
              ProcessLinkBody([nb |-> nb, rej |-> F, used |-> {}], link_index,
                              clab.links[link_index + 1],
                              ParseEndpoint(clab.links[link_index + 1].endpoints[1]),
                              ParseEndpoint(clab.links[link_index + 1].endpoints[2]),
                              devices))
    /\ link_index' = link_index + 1
    /\ pc' = IF link_index + 1 < Len(clab.links) THEN "links" ELSE "done"
    /\ UNCHANGED <<clab, hashseed, node_index, devices, run, plan>>

Init ==
    /\ clab \in RunTopologies
    /\ hashseed \in {0, 1}
    /\ pc = "start"
    /\ node_index = 0
    /\ link_index = 0
    /\ devices = {}
    /\ successful_links = 0
    /\ nb = EmptyInventory
    /\ failures = 0
    /\ last = IdleLast
    /\ run = 1
    /\ plan = IdlePlan

Next == Start \/ CreateDevice \/ ProcessLink

Spec == Init /\ [][Next]_vars

\* main() is invoked again, in a new process, on the same topology and against
\* the inventory that the invocations so far have left
RunAgain ==
    /\ pc \in {"done", "fatal"}
    /\ run < MaxRuns
    /\ run' = run + 1
    /\ hashseed' \in {0, 1}
    /\ pc' = "start"
    /\ node_index' = 0
    /\ link_index' = 0
    /\ devices' = {}
    /\ successful_links' = 0
    /\ last' = IdleLast
    /\ UNCHANGED <<clab, nb, failures, plan>>

NextRuns == Start \/ CreateDevice \/ ProcessLink \/ RunAgain

SpecRuns == Init /\ [][NextRuns]_vars

-----------------------------------------------------------------------------
(* Reference notions the properties are stated with *)

Spines == SeqToSet(FilterRole(NodeNames(clab), "spine"))
Leafs  == SeqToSet(FilterRole(NodeNames(clab), "leaf"))

LinksParse == EndpointsParse(clab.links, Len(clab.links))

EndDev(i, k) == ParseEndpoint(clab.links[i].endpoints[k]).dev
EndIntf(i, k) == ParseEndpoint(clab.links[i].endpoints[k]).intf

\* the undirected graph of the links: parallel links give one edge
Edges == { {EndDev(i, 1), EndDev(i, 2)} : i \in 1..Len(clab.links) }

\* the devices one hop further than the set B, in the graph with edges E
Expand(B, E) == B \cup UNION { e \in E : e \cap B # {} }

\* the devices that a device of B reaches
RECURSIVE Closure(_, _)
Closure(B, E) == IF Expand(B, E) = B THEN B ELSE Closure(Expand(B, E), E)

\* the least k such that a device of T is within k hops of B (T is reachable)
RECURSIVE HopsTo(_, _, _, _)
HopsTo(B, T, E, k) == IF B \cap T # {} THEN k ELSE HopsTo(Expand(B, E), T, E, k + 1)

ReachesLeaf(s) == Closure({s}, Edges) \cap Leafs # {}

\* the shortest hop count from s to any leaf, for a spine that reaches one
HopCount(s) == HopsTo({s}, Leafs, Edges, 0)

SetMax(S) == CHOOSE m \in S : \A x \in S : x <= m

\* the fabric-wide eBGP multihop of the topology: one more than the greatest
\* shortest spine-to-leaf distance (0 for a spine reaching no leaf), and the
\* default 2 without a spine or without a leaf
FabricMultihop ==
    IF Spines = {} \/ Leafs = {} THEN 2
    ELSE 1 + SetMax({ IF ReachesLeaf(s) THEN HopCount(s) ELSE 0 : s \in Spines })

\* the EVPN_OVERLAY peer group of a config context
EvpnGroup(ctx) ==
    LET g == ctx.bgp.peer_groups
    IN  g[CHOOSE i \in 1..Len(g) : g[i].name = "EVPN_OVERLAY"]

HasContext(ctx) == "bgp" \in DOMAIN ctx

OppositeTier(role) == IF role = "spine" THEN "leaf" ELSE "spine"

\* indices (from 1) of the links joining device d to a device of the opposite tier
TierLinks(d) ==
    LET opp == OppositeTier(determine_device_role(d))
    IN  { i \in 1..Len(clab.links) :
            \/ EndDev(i, 1) = d /\ determine_device_role(EndDev(i, 2)) = opp
            \/ EndDev(i, 2) = d /\ determine_device_role(EndDev(i, 1)) = opp }

\* the device at the other end of link i from d
PeerOf(i, d) == IF EndDev(i, 1) = d THEN EndDev(i, 2) ELSE EndDev(i, 1)

TierPeers(d) == { PeerOf(i, d) : i \in TierLinks(d) }

\* the interface <<device, name>> at end k of the link at position i
Intf(i, k) == << EndDev(i, k), EndIntf(i, k) >>

LinkParses(i) ==
    /\ ParseEndpoint(clab.links[i].endpoints[1]).ok
    /\ ParseEndpoint(clab.links[i].endpoints[2]).ok

\* the roles of the two devices that the link at position i names
LinkRoles(i) == { determine_device_role(EndDev(i, 1)), determine_device_role(EndDev(i, 2)) }

FabricLink(i) == LinkParses(i) /\ LinkRoles(i) = {"spine", "leaf"}

HostLink(i) == LinkParses(i) /\ LinkRoles(i) = {"leaf", "unknown"}

OtherLink(i) == LinkParses(i) /\ ~FabricLink(i) /\ ~HostLink(i)

\* the end (1 or 2) of the link at position i whose device has the role
EndWithRole(i, role) == IF determine_device_role(EndDev(i, 1)) = role THEN 1 ELSE 2

\* the end (1 or 2) of the link at position i that is device d
EndOf(i, d) == IF EndDev(i, 1) = d THEN 1 ELSE 2

\* the addresses the inventory inv holds for an interface
AddressesOf(inv, intf) ==
    { a \in DOMAIN inv.ip_addresses : inv.ip_addresses[a].assigned_object_id = intf }

\* the 802.1Q mode and the untagged VLAN the inventory inv holds for an interface
ModeOf(inv, intf) ==
    IF intf \in DOMAIN inv.interfaces
    THEN << inv.interfaces[intf].mode, inv.interfaces[intf].untagged_vlan >>
    ELSE << None, 0 >>

DescriptionOf(inv, intf) ==
    IF intf \in DOMAIN inv.interfaces THEN inv.interfaces[intf].description ELSE ""

\* the config context the inventory holds for device d
ContextOf(d) == nb.devices[d].local_context_data

Configured(d) == d \in DOMAIN nb.devices /\ HasContext(ContextOf(d))

\* the k-th smallest element of a set of numbers
Nth(S, k) == CHOOSE i \in S : Cardinality({ j \in S : j < i }) = k - 1

\* the loop iteration that just ended handled the link at position i
JustProcessed(i) == last.item = "link" /\ last.index = i - 1

\* the run is about to handle the link at position i
AboutToProcess(i) == pc = "links" /\ link_index = i - 1

-----------------------------------------------------------------------------
(* Properties of the planner *)

\* C2 (as amended): with at least one spine and one leaf, the depth computation
\* returns D + 1, D the maximum over the spines of the shortest hop count to any
\* leaf, a spine that reaches no leaf counting 0; the full mesh gives 2.
C2_DepthIsMaxShortestPlusOne ==
    (plan.op = "depth" /\ Spines # {} /\ Leafs # {} /\ LinksParse) =>
        /\ plan.ok
        /\ plan.depth =
             1 + SetMax({ IF ReachesLeaf(s) THEN HopCount(s) ELSE 0 : s \in Spines })
        /\ (clab = FullMesh => plan.depth = 2)

\* C2 (as stated): every spine has a shortest hop count to a leaf and the result
\* is one more than the maximum of these.
C2_Original ==
    (plan.op = "depth" /\ Spines # {} /\ Leafs # {} /\ LinksParse) =>
        /\ \A s \in Spines : ReachesLeaf(s)
        /\ plan.depth = 1 + SetMax({ HopCount(s) : s \in Spines })

\* the depth was computed where one spine is two hops from a leaf and another
\* is directly linked to one
C2_Witness ==
    /\ plan.op = "depth" /\ plan.depth = 3
    /\ \E s \in Spines : ReachesLeaf(s) /\ HopCount(s) = 1

\* C3: a generated context has one underlay neighbour per link to the opposite
\* tier and one overlay neighbour per distinct opposite-tier device, no peer twice.
C3_NeighborCounts ==
    (plan.op = "context" /\ plan.ok) =>
        LET evpn == plan.ctx.bgp.evpn.neighbors
        IN  /\ Len(plan.ctx.bgp.underlay_neighbors) = Cardinality(TierLinks(plan.device))
            /\ Len(evpn) = Cardinality(TierPeers(plan.device))
            /\ \A i, j \in 1..Len(evpn) : i # j => evpn[i] # evpn[j]

\* a context was generated for a device with two parallel links to one peer and
\* a link to a second peer
C3_Witness ==
    /\ plan.op = "context" /\ plan.ok
    /\ Len(plan.ctx.bgp.underlay_neighbors) = 3
    /\ Len(plan.ctx.bgp.evpn.neighbors) = 2

\* C6: the ebgp_multihop of the EVPN_OVERLAY peer group of every spine and every
\* leaf context is the fabric-wide value of the depth computation.
C6_MultihopIsFabricWide ==
    (plan.op = "context" /\ plan.ok) =>
        /\ EvpnGroup(plan.ctx).ebgp_multihop = calculate_topology_depth(clab).val
        /\ EvpnGroup(plan.ctx).ebgp_multihop = FabricMultihop

\* a leaf context was generated in a fabric whose multihop is 3
C6_Witness ==
    /\ plan.op = "context" /\ plan.ok
    /\ determine_device_role(plan.device) = "leaf"
    /\ EvpnGroup(plan.ctx).ebgp_multihop = 3

\* C7: with no spine or no leaf, whatever the links, the depth computation
\* returns 2 and raises nothing.
C7_DefaultDepth ==
    (plan.op = "depth" /\ (Spines = {} \/ Leafs = {})) => (plan.ok /\ plan.depth = 2)

\* the depth was computed for a topology without spines whose link list holds
\* an endpoint that does not parse
C7_Witness ==
    /\ plan.op = "depth" /\ plan.ok
    /\ Spines = {} /\ Leafs # {}
    /\ ~LinksParse

-----------------------------------------------------------------------------
(* Properties of the reconciliation run *)

\* C1: a link at index i between a spine and a leaf gives 10.0.i.0/31 to the
\* interface of the spine and 10.0.i.1/31 to the interface of the leaf, whichever
\* endpoint the link lists first: the two addresses are never held by any other
\* interface, and both are there once the link was handled and the inventory
\* accepted the addresses.
C1_SpineEvenLeafOdd ==
    \A i \in 1..Len(clab.links) :
        FabricLink(i) =>
            LET even == "10.0." \o ToString(i - 1) \o ".0/31"
                odd  == "10.0." \o ToString(i - 1) \o ".1/31"
                held == DOMAIN nb.ip_addresses
            IN  /\ even \in held =>
                     nb.ip_addresses[even].assigned_object_id = Intf(i, EndWithRole(i, "spine"))
                /\ odd \in held =>
                     nb.ip_addresses[odd].assigned_object_id = Intf(i, EndWithRole(i, "leaf"))
                /\ (JustProcessed(i) /\ last.outcome = "cabled"
                      /\ "ip_addresses" \notin last.rejected) => {even, odd} \subseteq held
                /\ (failures = 0 /\ link_index >= i
                      /\ {EndDev(i, 1), EndDev(i, 2)} \subseteq devices) => {even, odd} \subseteq held

\* a run handled a spine-first link and then a leaf-first link, and the second
\* link's two addresses are in the inventory
C1_Witness ==
    /\ pc = "done" /\ Len(clab.links) = 2
    /\ FabricLink(1) /\ EndWithRole(1, "spine") = 1
    /\ FabricLink(2) /\ EndWithRole(2, "spine") = 2
    /\ {"10.0.1.0/31", "10.0.1.1/31"} \subseteq DOMAIN nb.ip_addresses

\* the addresses that the handling of the link at position i put on an interface
P2PAddressesOf(i, intf) ==
    { a \in AddressesOf(nb, intf) :
        nb.ip_addresses[a].description = "P2P link " \o ToString(i - 1) }

\* C4: in the config context stored for a spine or a leaf, the k-th underlay
\* entry belongs to the device's k-th link to the opposite tier: its interface is
\* the device's own interface on that link, its remote_as is the ASN of the
\* peer's own context, and its ip is, without the prefix length, the address
\* that the handling of that link puts on the peer's interface, whichever
\* endpoint the link lists first.
C4_UnderlayMatchesLinks ==
    \A d \in DOMAIN nb.devices :
        HasContext(ContextOf(d)) =>
            LET under == ContextOf(d).bgp.underlay_neighbors
            IN  /\ Len(under) = Cardinality(TierLinks(d))
                /\ \A k \in 1..Len(under) :
                     LET i         == Nth(TierLinks(d), k)
                         peer      == PeerOf(i, d)
                         peer_intf == Intf(i, EndOf(i, peer))
                     IN  /\ under[k].interface = EndIntf(i, EndOf(i, d))
                         /\ Configured(peer) =>
                              under[k].remote_as = ContextOf(peer).bgp.asn
                         /\ P2PAddressesOf(i, peer_intf) \subseteq { under[k].ip \o "/31" }
                         /\ (failures = 0 /\ link_index >= i /\ peer \in devices) =>
                              P2PAddressesOf(i, peer_intf) # {}

\* a clean run stored the contexts of spine01 and leaf01, which are joined by a
\* spine-first and by a leaf-first link
C4_Witness ==
    /\ pc = "done" /\ failures = 0
    /\ Configured("spine01") /\ Configured("leaf01")
    /\ Len(ContextOf("spine01").bgp.underlay_neighbors) = 2
    /\ FabricLink(1) /\ EndOf(1, "spine01") = 1
    /\ FabricLink(2) /\ EndOf(2, "spine01") = 2

\* C5: in the config context stored for a spine, every distinct leaf peer has an
\* overlay entry whose ip is the address on that leaf's Loopback1 and whose
\* remote_as is the ASN of that leaf's own context; in the context of a leaf,
\* every spine peer has an entry with the address on the spine's Loopback0 and
\* the spine's ASN; there are no further entries.
C5_OverlayMatchesLoopbacks ==
    \A d \in DOMAIN nb.devices :
        HasContext(ContextOf(d)) =>
            LET evpn == ContextOf(d).bgp.evpn.neighbors
                loop == IF determine_device_role(d) = "spine" THEN "Loopback1" ELSE "Loopback0"
            IN  /\ Len(evpn) = Cardinality(TierPeers(d))
                /\ \A p \in TierPeers(d) :
                     /\ \E k \in 1..Len(evpn) :
                          /\ AddressesOf(nb, << p, loop >>) \subseteq { evpn[k].ip \o "/32" }
                          /\ Configured(p) => evpn[k].remote_as = ContextOf(p).bgp.asn
                     /\ (failures = 0 /\ p \in devices) => AddressesOf(nb, << p, loop >>) # {}

\* a clean run stored the contexts of spine01 and leaf01, peers of each other,
\* and the two loopback addresses that the overlay entries name
C5_Witness ==
    /\ pc = "done" /\ failures = 0
    /\ Configured("spine01") /\ Configured("leaf01")
    /\ Len(ContextOf("spine01").bgp.evpn.neighbors) = 2
    /\ Len(ContextOf("leaf01").bgp.evpn.neighbors) = 1
    /\ AddressesOf(nb, << "leaf01", "Loopback1" >>) # {}
    /\ AddressesOf(nb, << "spine01", "Loopback0" >>) # {}

\* the link at position i carries the labels mode=access and a VLAN id
AccessLabels(i) == clab.links[i].labels.mode = "access" /\ clab.links[i].labels.vlan # 0

\* C8: handling a link between a leaf and a device of unknown role, in either
\* endpoint order, assigns no IP address; the host-side interface and every other
\* interface keep their mode and VLAN; with the labels mode=access and a VLAN id
\* the leaf-side interface ends in access mode with that VLAN untagged and the
\* VLAN is in the inventory (created if absent); without them no interface
\* changes mode or VLAN and no VLAN is created.
C8_HostLinkStep ==
    [][ \A i \in 1..Len(clab.links) :
          (AboutToProcess(i) /\ HostLink(i)) =>
              LET leaf_intf == Intf(i, EndWithRole(i, "leaf"))
                  host_intf == Intf(i, EndWithRole(i, "unknown"))
                  vlan      == clab.links[i].labels.vlan
              IN  /\ nb'.ip_addresses = nb.ip_addresses
                  /\ ModeOf(nb', host_intf) = << None, 0 >>
                  /\ \A x \in DOMAIN nb'.interfaces \ {leaf_intf} :
                       ModeOf(nb', x) = ModeOf(nb, x)
                  /\ AccessLabels(i) =>
                       /\ ModeOf(nb', leaf_intf) \in { ModeOf(nb, leaf_intf), << "access", vlan >> }
                       /\ (last'.outcome = "cabled" /\ "vlans.create" \notin last'.rejected) =>
                            /\ ModeOf(nb', leaf_intf) = << "access", vlan >>
                            /\ vlan \in DOMAIN nb'.vlans
                  /\ ~AccessLabels(i) =>
                       /\ ModeOf(nb', leaf_intf) = ModeOf(nb, leaf_intf)
                       /\ nb'.vlans = nb.vlans
      ]_vars

\* a host-first link labelled access on VLAN 40, a VLAN the inventory did not
\* hold, was handled: the leaf side is an access port on VLAN 40
C8_Witness ==
    \E i \in 1..Len(clab.links) :
        /\ JustProcessed(i) /\ last.outcome = "cabled"
        /\ HostLink(i) /\ EndWithRole(i, "leaf") = 2
        /\ AccessLabels(i) /\ clab.links[i].labels.vlan = 40
        /\ ModeOf(nb, Intf(i, 2)) = << "access", 40 >>
        /\ ModeOf(nb, Intf(i, 1)) = << None, 0 >>
        /\ 40 \in DOMAIN nb.vlans

\* C9: handling a link whose role pair is neither {spine, leaf} nor
\* {leaf, unknown} assigns no IP address, creates no VLAN and changes the mode
\* and VLAN of no interface, whatever labels the link carries; the iteration
\* raises nothing, the link is cabled and counted when its devices exist and the
\* inventory rejects nothing, and the loop goes on to the next link.
C9_OtherLinkStep ==
    [][ \A i \in 1..Len(clab.links) :
          (AboutToProcess(i) /\ OtherLink(i)) =>
              /\ nb'.ip_addresses = nb.ip_addresses
              /\ nb'.vlans = nb.vlans
              /\ \A x \in DOMAIN nb'.interfaces : ModeOf(nb', x) = ModeOf(nb, x)
              /\ last'.outcome \notin {"raised", "ValueError"}
              /\ (last'.rejected = {} /\ {EndDev(i, 1), EndDev(i, 2)} \subseteq devices) =>
                   /\ last'.outcome = "cabled"
                   /\ successful_links' = successful_links + 1
              /\ link_index' = i
              /\ pc' = IF i < Len(clab.links) THEN "links" ELSE "done"
      ]_vars

\* a run handled a link between a leaf and a border device that carries access
\* labels, then a second link, and counted both
C9_Witness ==
    /\ pc = "done" /\ Len(clab.links) = 2 /\ successful_links = 2
    /\ OtherLink(1) /\ AccessLabels(1)
    /\ "leaf" \in LinkRoles(1)
    /\ ModeOf(nb, Intf(1, 1)) = << None, 0 >> /\ ModeOf(nb, Intf(1, 2)) = << None, 0 >>

\* C10 (as stated): once a link was handled, its two devices and two interfaces
\* obtained and nothing rejected, each endpoint interface carries the
\* description to_<device at the other end>, whatever the role pair.
C10_EveryLinkDescribed ==
    \A i \in 1..Len(clab.links) :
        (JustProcessed(i) /\ last.outcome = "cabled" /\ last.rejected = {}) =>
            /\ DescriptionOf(nb, Intf(i, 1)) = "to_" \o EndDev(i, 2)
            /\ DescriptionOf(nb, Intf(i, 2)) = "to_" \o EndDev(i, 1)

\* the management subnet of the topology is missing or has no prefix length
NoPrefixLength ==
    clab.mgmt = None \/ \A k \in 1..Len(clab.mgmt) : CharAt(clab.mgmt, k) # "/"

\* C11: when mgmt.ipv4-subnet is missing or has no prefix length, the run ends as
\* a fatal error before the device loop: no manufacturer, device type, role,
\* device, interface, IP address, VLAN or cable is looked up or created, no node
\* and no link is handled.
C11_NoSubnetIsFatal ==
    NoPrefixLength =>
        /\ pc \in {"start", "fatal"}
        /\ (pc = "fatal" => last.outcome = "fatal")
        /\ node_index = 0 /\ link_index = 0
        /\ devices = {} /\ successful_links = 0
        /\ nb.manufacturers = {} /\ nb.device_types = {} /\ nb.device_roles = {}
        /\ DOMAIN nb.devices = {} /\ DOMAIN nb.interfaces = {}
        /\ DOMAIN nb.ip_addresses = {} /\ DOMAIN nb.vlans = {} /\ nb.cables = {}
        /\ last.rejected \subseteq {"sites", "custom_fields"}
        /\ \A k \in 1..Len(nb.created) : nb.created[k][1] \in {"sites", "custom_fields"}

\* a run over a topology with two links whose subnet is 172.20.20.0 ended as a
\* fatal error, the inventory having rejected nothing
C11_Witness ==
    /\ pc = "fatal" /\ failures = 0
    /\ clab.mgmt = "172.20.20.0" /\ Len(clab.links) = 2
    /\ Len(nb.created) = 2

\* C12 (as stated): a link whose endpoint does not parse as device:interface is
\* fatal to the whole run: the run never completes, and no link after that link
\* is handled.
C12_UnparseableLinkIsFatal ==
    \A i \in 1..Len(clab.links) :
        ~LinkParses(i) => (pc # "done" /\ link_index <= i)

\* where the run is once n nodes (m links) were handled
AfterNodesHandled(n) ==
    IF n < Len(clab.nodes) THEN "devices" ELSE IF Len(clab.links) > 0 THEN "links" ELSE "done"

AfterLinksHandled(m) == IF m < Len(clab.links) THEN "links" ELSE "done"

CablesCreatedOn(inv, x) ==
    { k \in 1..Len(inv.created) :
        inv.created[k][1] = "cables" /\ x \in {inv.created[k][2][1], inv.created[k][2][2]} }

\* no key was created twice on any endpoint, no interface got two cables
OneObjectPerKey(inv) ==
    /\ \A j, k \in 1..Len(inv.created) : j # k => inv.created[j] # inv.created[k]
    /\ \A x \in DOMAIN inv.interfaces :
          /\ Cardinality(CablesCreatedOn(inv, x)) <= 1
          /\ Cardinality({ c \in inv.cables : x \in c }) <= 1

\* C14: over any number of invocations on the same topology, whatever the
\* inventory rejected, no manufacturer, device type, site, role, custom field,
\* device, interface (per device and name), IP address (per address) or VLAN (per
\* id) is created twice and no interface gets a second cable; an invocation that
\* follows invocations during which nothing was rejected creates no object, and
\* it obtains every device and counts every link between nodes of the topology as
\* if it had created them.
C14_GetOrCreate ==
    [][ /\ OneObjectPerKey(nb')
        /\ (run >= 2 /\ failures' = 0) =>
              /\ nb'.created = nb.created
              /\ pc = "start" => (pc' = "fatal" <=> NoPrefixLength)
              /\ pc = "devices" => clab.nodes[node_index + 1].name \in devices'
              /\ (pc = "links" /\ LinkParses(link_index + 1)
                    /\ {EndDev(link_index + 1, 1), EndDev(link_index + 1, 2)}
                          \subseteq SeqToSet(NodeNames(clab))) =>
                    (last'.outcome = "cabled" /\ successful_links' = successful_links + 1)
      ]_vars

\* a second invocation came to its end on a topology with a fabric link and a
\* host link, nothing rejected: all devices obtained, both links counted
C14_Witness ==
    /\ run = 2 /\ pc = "done" /\ failures = 0
    /\ Len(clab.links) = 2 /\ FabricLink(1) /\ HostLink(2)
    /\ successful_links = 2
    /\ Cardinality(devices) = 4
    /\ Cardinality(nb.cables) = 2

-----------------------------------------------------------------------------
(* Properties of the naming functions *)

\* the naming functions were applied to the device name of the state
Addressed == plan.op = "address"

\* the router IDs of all the device names, each under its own role
AllRouterIds ==
    { generate_router_id(d.name, determine_device_role(d.name)) : d \in AddrInputs }

\* C15: the router ID of a name with number n is 10.255.255.n for a spine and
\* 10.255.255.(100+n) for a leaf and for any other role; the VTEP address of a leaf
\* is 10.255.254.(100+n), the last octet of its router ID on the other base, and
\* it is the router ID of no device.
C15_RouterIdAndVtep ==
    Addressed =>
        /\ plan.ctx.prefix_role = "spine" =>
              plan.ctx.router_id = "10.255.255." \o ToString(plan.ctx.number)
        /\ plan.ctx.prefix_role # "spine" =>
              plan.ctx.router_id = "10.255.255." \o ToString(100 + plan.ctx.number)
        /\ plan.ctx.prefix_role = "leaf" =>
              /\ plan.ctx.vtep_ip = "10.255.254." \o ToString(100 + plan.ctx.number)
              /\ Split(plan.ctx.vtep_ip, ".")[4] = Split(plan.ctx.router_id, ".")[4]
              /\ plan.ctx.vtep_ip \notin AllRouterIds
        /\ plan.device = "leaf01" =>
              plan.ctx.router_id = "10.255.255.101" /\ plan.ctx.vtep_ip = "10.255.254.101"

\* the naming functions were applied to a leaf whose number follows a dash and
\* another number
C15_Witness ==
    /\ Addressed /\ plan.device = "leaf1-07"
    /\ plan.ctx.router_id = "10.255.255.107" /\ plan.ctx.vtep_ip = "10.255.254.107"

\* the device names of a role whose number is within 1..100
Within100(role) ==
    { d \in AddrInputs : d.prefix_role = role /\ d.number \in 1..100 }

SpineRouterIds100 == { generate_router_id(d.name, "spine") : d \in Within100("spine") }

LeafRouterIds100 == { generate_router_id(d.name, "leaf") : d \in Within100("leaf") }

\* the last of the four numbers of a dotted address
LastOctet(ip) == StrToInt(Split(ip, ".")[4])

\* C16: the router ID of a spine numbered within 1..100 ends in 1..100 and is the
\* router ID of no leaf numbered within 1..100; the router ID of such a leaf ends
\* in 101..200 and is the router ID of no such spine.
C16_TierRangesDisjoint ==
    (Addressed /\ plan.ctx.number \in 1..100) =>
        /\ plan.ctx.prefix_role = "spine" =>
              /\ LastOctet(plan.ctx.router_id) \in 1..100
              /\ plan.ctx.router_id \notin LeafRouterIds100
        /\ plan.ctx.prefix_role = "leaf" =>
              /\ LastOctet(plan.ctx.router_id) \in 101..200
              /\ plan.ctx.router_id \notin SpineRouterIds100

\* the naming functions were applied to the last spine of the range
C16_Witness ==
    /\ Addressed /\ plan.device = "spine100"
    /\ plan.ctx.router_id = "10.255.255.100"
    /\ "10.255.255.101" \in LeafRouterIds100

LeafInputs == { d \in AddrInputs : d.prefix_role = "leaf" }

\* the ASN of every leaf name
LeafAsn == [d \in LeafInputs |-> generate_asn(d.name, "leaf")]

\* C17 (as amended): every spine gets 65000 and every leaf 65100 + number - 1,
\* which is never 65000, and two leafs whose numbers differ get different ASNs.
C17_AsnPerOrdinal ==
    Addressed =>
        /\ plan.ctx.prefix_role = "spine" => plan.ctx.asn = 65000
        /\ plan.ctx.prefix_role = "leaf" =>
              /\ plan.ctx.asn = 65100 + plan.ctx.number - 1
              /\ plan.ctx.asn # 65000
              /\ \A d \in LeafInputs :
                    d.number # plan.ctx.number => LeafAsn[d] # plan.ctx.asn

\* C17 (as stated): every spine gets 65000 and every leaf 65100 + number - 1,
\* which is never 65000 and is the ASN of no other leaf name.
C17_Original ==
    Addressed =>
        /\ plan.ctx.prefix_role = "spine" => plan.ctx.asn = 65000
        /\ plan.ctx.prefix_role = "leaf" =>
              /\ plan.ctx.asn = 65100 + plan.ctx.number - 1
              /\ plan.ctx.asn # 65000
              /\ \A d \in LeafInputs :
                    d.name # plan.device => LeafAsn[d] # plan.ctx.asn

\* the naming functions were applied to leaf02, whose ASN is 65101
C17_Witness ==
    /\ Addressed /\ plan.device = "leaf02"
    /\ plan.ctx.asn = 65101
    /\ \E d \in LeafInputs : d.number = 3 /\ LeafAsn[d] = 65102

\* device_name begins with p, letter case set aside
HasPrefixNoCase(device_name, p) ==
    /\ Len(device_name) >= Len(p)
    /\ \A k \in 1..Len(p) : LowerChar(CharAt(device_name, k)) = CharAt(p, k)

\* C18: every device name gets exactly one of spine, leaf, border, unknown: spine
\* when it begins with spine, leaf when it begins with leaf, border when it begins
\* with border, letter case set aside, and unknown otherwise.
C18_RoleByPrefix ==
    Addressed =>
        /\ plan.ctx.role \in {"spine", "leaf", "border", "unknown"}
        /\ plan.ctx.role = plan.ctx.prefix_role
        /\ plan.ctx.role = "spine" <=> HasPrefixNoCase(plan.device, "spine")
        /\ plan.ctx.role = "leaf" <=> HasPrefixNoCase(plan.device, "leaf")
        /\ plan.ctx.role = "border" <=> HasPrefixNoCase(plan.device, "border")
        /\ plan.ctx.role = "unknown" <=>
              ~\E p \in {"spine", "leaf", "border"} : HasPrefixNoCase(plan.device, p)

\* the role of a name in mixed case was determined
C18_Witness ==
    /\ Addressed /\ plan.device = "BoRdEr12"
    /\ plan.ctx.role = "border"

\* C19: the number of a device name is the value of the run of digits it ends
\* with, whatever digits come before that run, and 0 when it does not end in a
\* digit: leaf01 gives 1, spine10 gives 10, border gives 0.
C19_TrailingNumber ==
    Addressed =>
        /\ plan.ctx.device_num = plan.ctx.number
        /\ plan.ctx.digits = "" => plan.ctx.device_num = 0
        /\ plan.device = "leaf01" => plan.ctx.device_num = 1
        /\ plan.device = "spine10" => plan.ctx.device_num = 10
        /\ plan.device = "border" => plan.ctx.device_num = 0

\* the number of a name with a digit before a dash and a number written with
\* leading zeros was extracted
C19_Witness ==
    /\ Addressed /\ plan.device = "leaf1-010"
    /\ plan.ctx.device_num = 10

-----------------------------------------------------------------------------
(* Properties of the VLAN to VNI table *)

\* the vlan_vni_mappings that the context of leaf l of the topology carries
VniTableOf(l) ==
    generate_leaf_config_context(l, clab.nodes, clab, clab.nodes).val.vxlan.vlan_vni_mappings

\* C20: the context of a leaf carries a vxlan block whose vlan_vni_mappings has
\* one entry per fabric VLAN (10, 20, 30), in their order, with vni = 10000 + vlan;
\* every leaf of the topology carries the same table, whatever its name, number
\* and links; the context of a spine carries no vxlan block.
C20_VniTable ==
    (plan.op = "context" /\ plan.ok) =>
        /\ determine_device_role(plan.device) = "spine" => "vxlan" \notin DOMAIN plan.ctx
        /\ determine_device_role(plan.device) = "leaf" =>
              /\ "vxlan" \in DOMAIN plan.ctx
              /\ Len(plan.ctx.vxlan.vlan_vni_mappings) = Len(DEFAULT_VLANS)
              /\ \A i \in 1..Len(DEFAULT_VLANS) :
                    /\ plan.ctx.vxlan.vlan_vni_mappings[i].vlan = DEFAULT_VLANS[i].vid
                    /\ plan.ctx.vxlan.vlan_vni_mappings[i].vni =
                          10000 + plan.ctx.vxlan.vlan_vni_mappings[i].vlan
              /\ plan.ctx.vxlan.vlan_vni_mappings =
                    << [vlan |-> 10, vni |-> 10010], [vlan |-> 20, vni |-> 10020],
                       [vlan |-> 30, vni |-> 10030] >>
              /\ \A l \in Leafs : VniTableOf(l) = plan.ctx.vxlan.vlan_vni_mappings

\* the context of leaf01, which has three links to spines, was generated in a
\* topology whose other leaf, leaf02, has none
C20_Witness ==
    /\ plan.op = "context" /\ plan.ok /\ plan.device = "leaf01"
    /\ "leaf02" \in Leafs /\ TierLinks("leaf02") = {}
    /\ Len(plan.ctx.bgp.underlay_neighbors) = 3
    /\ Len(plan.ctx.vxlan.vlan_vni_mappings) = 3

-----------------------------------------------------------------------------
(* Properties of the summary counts *)

\* C21 (as stated): the summaries count as successful exactly the items handled
\* without a per-item failure: a device enters the count of "Successfully
\* processed n devices" exactly when its iteration raised nothing and the
\* inventory rejected nothing during it, a link enters successful_links exactly
\* when it was cabled and the inventory rejected nothing during its iteration;
\* neither count exceeds the number of items attempted.
C21_SummaryCountsCleanItems ==
    [][ /\ pc = "devices" =>
              /\ (devices' # devices) <=> (last'.outcome = "ok" /\ last'.rejected = {})
              /\ Cardinality(devices') <= node_index'
        /\ pc = "links" =>
              /\ (successful_links' # successful_links)
                    <=> (last'.outcome = "cabled" /\ last'.rejected = {})
              /\ successful_links' <= link_index'
      ]_vars

-----------------------------------------------------------------------------
(* Properties of the context as a function *)

\* the config context that the running process generates for the node at
\* position i of the topology
ContextNow(i) ==
    GenerateContext(clab.nodes[i], determine_device_role(clab.nodes[i].name), clab).val

\* C22 (as stated): the config context of a device is a function of the device
\* name and the topology alone: the context that the inventory holds for a
\* device, whenever and in whatever inventory state it was generated, is the
\* document that generating the context of that device for the same topology
\* yields now.
C22_ContextIsFunctionOfTopology ==
    \A i \in 1..Len(clab.nodes) :
        Configured(clab.nodes[i].name) => ContextOf(clab.nodes[i].name) = ContextNow(i)

-----------------------------------------------------------------------------
(* Search harness: bfs_shortest_path, one iteration of its while loop at a time *)

\* links among spines and a border device: a triangle, a link from spine01 to
\* itself, a second link between spine01 and spine02, and one link on to a leaf
BfsLinkChoices ==
    { Link("spine01:eth1", "spine02:eth1"),
      Link("spine02:eth2", "border01:eth1"),
      Link("border01:eth2", "spine01:eth2"),
      Link("spine01:eth3", "spine01:eth4"),
      Link("spine02:eth3", "spine01:eth5"),
      Link("border01:eth3", "leaf01:eth1") }

BfsNodes ==
    << Node("spine01", "ceos"), Node("spine02", "ceos"), Node("border01", "ceos"),
       Node("leaf01", "ceos") >>

BfsTopologies ==
    { [name |-> "lab", skip_config_context |-> FALSE, mgmt |-> "172.20.20.0/24",
       nodes |-> BfsNodes, links |-> l] : l \in SeqsUpTo(BfsLinkChoices, MaxBfsLinks) }

\* the harness before the search is called: no links handed over yet
InitBfs ==
    /\ clab = [name |-> "lab", skip_config_context |-> FALSE, mgmt |-> "172.20.20.0/24",
               nodes |-> BfsNodes, links |-> << >>]
    /\ hashseed = 0
    /\ pc = "search"
    /\ node_index = 0
    /\ link_index = 0
    /\ devices = {}
    /\ successful_links = 0
    /\ nb = EmptyInventory
    /\ failures = 0
    /\ last = IdleLast
    /\ run = 1
    /\ plan = IdlePlan

\* queue = [(start, 0)]; visited = {start}, unless "if start in targets: return 0";
\* targets is the argument set(leafs), adjacency the map that
\* calculate_topology_depth built before the search
BfsEntered(s, targets, adjacency) ==
    IF s \in targets
    THEN [op |-> "returned", start |-> s, targets |-> targets, adjacency |-> adjacency,
          queue |-> << >>, visited |-> {}, enqueued |-> << >>, iterations |-> 0,
          ret |-> 0]
    ELSE [op |-> "bfs", start |-> s, targets |-> targets, adjacency |-> adjacency,
          queue |-> << [node |-> s, depth |-> 0] >>, visited |-> {s},
          enqueued |-> << s >>, iterations |-> 0, ret |-> 0]

\* the devices that the for-loop appended to the queue: the queue after the scan
\* is the rest of the queue before it, then the appended entries
Appended(before, after) ==
    [k \in 1..(Len(after) - (Len(before) - 1)) |-> after[Len(before) - 1 + k].node]

\* calculate_topology_depth, handed a topology, calls bfs_shortest_path with one
\* of its spines: the search up to its while loop
BfsStart ==
    /\ pc = "search"
    /\ plan.op = "idle"
    /\ \E t \in BfsTopologies :
          /\ clab' = t
          /\ \E s \in SeqToSet(FilterRole(NodeNames(t), "spine")) :
                plan' = BfsEntered(s, SeqToSet(FilterRole(NodeNames(t), "leaf")),
                                   BuildAdjacency(Links(t), 1, << >>))
    /\ UNCHANGED <<hashseed, pc, node_index, link_index, devices, successful_links, nb,
                   failures, last, run>>

\* the search after the for-loop of one iteration: "return depth + 1" when a
\* target was met, the next iteration otherwise
BfsAfterScan(p, r) ==
    [p EXCEPT !.op = IF r.found THEN "returned" ELSE "bfs",
              !.ret = r.ret,
              !.queue = r.queue,
              !.visited = r.visited,
              !.enqueued = @ \o Appended(p.queue, r.queue),
              !.iterations = @ + 1]

\* one iteration of "while queue": queue.pop(0), then the for-loop
BfsIterate ==
    /\ pc = "search"
    /\ plan.op = "bfs"
    /\ plan.queue # << >>
    /\ plan' = BfsAfterScan(plan,
                   ScanNeighbors(AdjGet(plan.adjacency, Head(plan.queue).node), 1,
                                 Head(plan.queue).depth, Tail(plan.queue),
                                 plan.visited, plan.targets))
    /\ UNCHANGED run_vars

\* "while queue" finds the queue empty: return 0
BfsExhausted ==
    /\ pc = "search"
    /\ plan.op = "bfs"
    /\ plan.queue = << >>
    /\ plan' = [plan EXCEPT !.op = "returned", !.ret = 0]
    /\ UNCHANGED run_vars

NextBfs == BfsStart \/ BfsIterate \/ BfsExhausted

\* the loop runs synchronously to its end: an iteration that can run does run
SpecBfs ==
    InitBfs /\ [][NextBfs]_vars /\ WF_vars(BfsIterate) /\ WF_vars(BfsExhausted)

\* the devices of the graph that the search walks
BfsDevices == {plan.start} \cup UNION Edges

\* no device was enqueued twice; the visited set is the set of the devices ever
\* enqueued; every enqueued device is in the queue or was dequeued by one of the
\* iterations so far
EnqueuedOnce ==
    /\ \A j, k \in 1..Len(plan.enqueued) : j # k => plan.enqueued[j] # plan.enqueued[k]
    /\ plan.visited = SeqToSet(plan.enqueued)
    /\ plan.visited \subseteq BfsDevices
    /\ plan.iterations + Len(plan.queue) = Len(plan.enqueued)

\* C23: the search started from a spine terminates on every topology, with
\* cycles, parallel links and a link from a device to itself: no device is
\* enqueued (added to the visited set) twice, so the loop runs at most once per
\* device of the graph; every search that started returns, either with the queue
\* empty and 0 or with the distance of a leaf it found, and it returns what
\* bfs_shortest_path computes.
C23_SearchTerminates ==
    /\ [](plan.op \in {"bfs", "returned"} =>
            /\ EnqueuedOnce
            /\ plan.iterations <= Cardinality(BfsDevices))
    /\ [](plan.op = "returned" =>
            /\ plan.targets = Leafs
            /\ plan.ret = bfs_shortest_path(plan.start, Leafs,
                                            BuildAdjacency(Links(clab), 1, << >>))
            /\ \/ plan.ret = 0 /\ plan.queue = << >>
               \/ plan.ret >= 1 /\ plan.ret <= plan.iterations)
    /\ (plan.op = "bfs") ~> (plan.op = "returned")

\* the search from spine01 ended with the queue empty after three iterations on
\* the triangle spine01, spine02, border01 with the link from spine01 to itself
C23_Witness ==
    /\ plan.op = "returned" /\ plan.start = "spine01"
    /\ plan.ret = 0 /\ plan.iterations = 3
    /\ plan.visited = {"spine01", "spine02", "border01"}
    /\ Len(clab.links) = 4 /\ Cardinality(Edges) = 4
    /\ \E i \in 1..Len(clab.links) : EndDev(i, 1) = EndDev(i, 2)

-----------------------------------------------------------------------------
(* Properties of the links of absent devices *)

\* C24: the iteration on a link that names a device absent from the device map
\* (its creation failed, or it is no node of the topology) changes nothing in
\* the inventory, neither interface, description, address, VLAN nor cable, calls
\* no inventory operation at all, does not count the link, and goes on to the
\* next link.
C24_AbsentDeviceSkipsLink ==
    [][ (pc = "links" /\ LinkParses(link_index + 1)
           /\ ~({EndDev(link_index + 1, 1), EndDev(link_index + 1, 2)} \subseteq devices)) =>
          /\ nb' = nb
          /\ last'.rejected = {} /\ failures' = failures
          /\ last'.outcome = "no device"
          /\ successful_links' = successful_links
          /\ link_index' = link_index + 1
          /\ pc' = AfterLinksHandled(link_index + 1)
      ]_vars

\* the creation of spine01 was rejected; the fabric link naming spine01 was
\* skipped, leaving no interface on leaf01 either, and the host link after it
\* was cabled and counted
C24_Witness ==
    /\ pc = "done" /\ Len(clab.links) = 2
    /\ "spine01" \notin devices /\ "leaf01" \in devices
    /\ FabricLink(1) /\ "spine01" \in {EndDev(1, 1), EndDev(1, 2)}
    /\ Intf(1, 1) \notin DOMAIN nb.interfaces /\ Intf(1, 2) \notin DOMAIN nb.interfaces
    /\ HostLink(2) /\ last.outcome = "cabled" /\ successful_links = 1
    /\ Cardinality(nb.cables) = 1

-----------------------------------------------------------------------------
(* Properties of the returned depth *)

-----------------------------------------------------------------------------
(* Properties of the access VLANs *)

\* the VLAN ids of the vlan_vni_mappings in the context that the inventory holds
\* for device d
MappedVlans(d) ==
    { ContextOf(d).vxlan.vlan_vni_mappings[k].vlan :
        k \in 1..Len(ContextOf(d).vxlan.vlan_vni_mappings) }

\* C26 (as stated): once the run is complete, the untagged VLAN of every
\* interface of a leaf that a host-facing link put in access mode is the vlan of
\* an entry of vxlan.vlan_vni_mappings in the context of that leaf.
C26_AccessVlansAreMapped ==
    pc = "done" =>
        \A i \in 1..Len(clab.links) :
            (HostLink(i) /\ Configured(EndDev(i, EndWithRole(i, "leaf")))
               /\ ModeOf(nb, Intf(i, EndWithRole(i, "leaf")))[1] = "access") =>
                  ModeOf(nb, Intf(i, EndWithRole(i, "leaf")))[2]
                      \in MappedVlans(EndDev(i, EndWithRole(i, "leaf")))

-----------------------------------------------------------------------------
(* The purge of the inventory: netbox_purge.py *)

\* the deletion plan of purge_netbox: endpoint path and display name, in order
deletion_plan ==
    << << "ipam.ip_addresses", "IP Addresses" >>,
       << "ipam.prefixes", "Prefixes" >>,
       << "ipam.aggregates", "Aggregates" >>,
       << "ipam.vlans", "VLANs" >>,
       << "ipam.vlan_groups", "VLAN Groups" >>,
       << "ipam.vrfs", "VRFs" >>,
       << "ipam.rirs", "RIRs" >>,
       << "circuits.circuit_terminations", "Circuit Terminations" >>,
       << "circuits.circuits", "Circuits" >>,
       << "circuits.providers", "Providers" >>,
       << "circuits.circuit_types", "Circuit Types" >>,
       << "dcim.cables", "Cables" >>,
       << "dcim.power_feeds", "Power Feeds" >>,
       << "dcim.power_panels", "Power Panels" >>,
       << "dcim.console_ports", "Console Ports" >>,
       << "dcim.console_server_ports", "Console Server Ports" >>,
       << "dcim.power_ports", "Power Ports" >>,
       << "dcim.power_outlets", "Power Outlets" >>,
       << "dcim.interfaces", "Interfaces" >>,
       << "dcim.front_ports", "Front Ports" >>,
       << "dcim.rear_ports", "Rear Ports" >>,
       << "dcim.device_bays", "Device Bays" >>,
       << "dcim.inventory_items", "Inventory Items" >>,
       << "dcim.devices", "Devices" >>,
       << "dcim.rack_reservations", "Rack Reservations" >>,
       << "dcim.racks", "Racks" >>,
       << "dcim.rack_roles", "Rack Roles" >>,
       << "dcim.rack_groups", "Rack Groups" >>,
       << "dcim.locations", "Locations" >>,
       << "dcim.sites", "Sites" >>,
       << "dcim.site_groups", "Site Groups" >>,
       << "dcim.regions", "Regions" >>,
       << "dcim.device_types", "Device Types" >>,
       << "dcim.module_types", "Module Types" >>,
       << "dcim.manufacturers", "Manufacturers" >>,
       << "dcim.platforms", "Platforms" >>,
       << "dcim.device_roles", "Device Roles" >>,
       << "virtualization.virtual_disks", "Virtual Disks" >>,
       << "virtualization.vm_interfaces", "VM Interfaces" >>,
       << "virtualization.virtual_machines", "Virtual Machines" >>,
       << "virtualization.clusters", "Clusters" >>,
       << "virtualization.cluster_groups", "Cluster Groups" >>,
       << "virtualization.cluster_types", "Cluster Types" >>,
       << "tenancy.contacts", "Contacts" >>,
       << "tenancy.contact_groups", "Contact Groups" >>,
       << "tenancy.contact_roles", "Contact Roles" >>,
       << "tenancy.tenant_groups", "Tenant Groups" >>,
       << "tenancy.tenants", "Tenants" >>,
       << "extras.tags", "Tags" >>,
       << "extras.custom_links", "Custom Links" >>,
       << "extras.webhooks", "Webhooks" >>,
       << "extras.custom_fields", "Custom Fields" >> >>

PurgeEndpoints == { deletion_plan[k][1] : k \in 1..Len(deletion_plan) }

\* the endpoints that hold the objects which a seeding run creates
SeededEndpoints ==
    { "ipam.ip_addresses", "ipam.vlans", "dcim.cables", "dcim.interfaces", "dcim.devices",
      "dcim.sites", "dcim.device_types", "dcim.manufacturers", "dcim.device_roles",
      "extras.custom_fields" }

\* which endpoints hold objects when the purge starts
PurgePopulations ==
    { {}, SeededEndpoints, {"dcim.devices", "dcim.sites"},
      {"ipam.ip_addresses", "dcim.interfaces", "dcim.devices", "dcim.device_roles"} }

\* the inventory at the start of the purge: per endpoint the ids of its objects,
\* in the order in which endpoint.all() lists them
PurgeInventories ==
    { [p \in PurgeEndpoints |-> IF p \in K THEN 1..n ELSE {}] :
        K \in PurgePopulations, n \in 1..MaxPurgeObjects }

\* total_deleted = 0, no entry of the plan handled, no deletion attempted
IdlePurge == [op |-> "purge", index |-> 0, total_deleted |-> 0, log |-> << >>]

InitPurge ==
    /\ clab = [name |-> "", skip_config_context |-> FALSE, mgmt |-> None,
               nodes |-> << >>, links |-> << >>]
    /\ hashseed = 0
    /\ pc = "confirm"
    /\ node_index = 0
    /\ link_index = 0
    /\ devices = {}
    /\ successful_links = 0
    /\ nb \in PurgeInventories
    /\ failures = 0
    /\ last = IdleLast
    /\ run = 1
    /\ plan = IdlePurge

\* where purge_netbox is after n entries of the deletion plan
AfterEndpoints(n) == IF n < Len(deletion_plan) THEN "purging" ELSE "complete"

\* the confirmation prompt of the script, then purge_netbox up to its loop: the
\* credentials are read from the environment
PurgeConfirm ==
    /\ pc = "confirm"
    /\ \E response \in {"DELETE ALL DATA", "yes"}, credentials \in BOOLEAN :
          pc' = IF response # "DELETE ALL DATA" THEN "cancelled"
                ELSE IF ~credentials THEN "fatal"
                ELSE AfterEndpoints(0)
    /\ UNCHANGED <<clab, hashseed, node_index, link_index, devices, successful_links, nb,
                   failures, last, run, plan>>

\* what the inventory answers during one iteration: the endpoint is not found
\* (AttributeError), listing its objects raises another exception, or the
\* objects are listed and obj.delete() raises for those in failed
PurgeAnswers(objects, budget) ==
    { [kind |-> "listed", failed |-> F] : F \in SubsetsUpTo(objects, budget) }
    \cup (IF budget > 0
          THEN { [kind |-> k, failed |-> {}] : k \in {"AttributeError", "Exception"} }
          ELSE {})

\* "for obj in objects: obj.delete()": the deletions attempted, in list order
\* (the objects of an endpoint not yet handled are 1..count)
Attempts(path, objects, failed) ==
    [k \in 1..Cardinality(objects) |-> [path |-> path, id |-> k, ok |-> k \notin failed]]

\* an except clause that hands the exception on to the handler around the loop
AfterPurgeIteration_abort(a, n) ==
    IF a.kind # "listed" \/ a.failed # {} THEN "fatal" ELSE AfterEndpoints(n)

\* the three except clauses inside the loop only log: the loop goes on whatever
\* the iteration raised
AfterPurgeIteration(a, n) == AfterEndpoints(n)

\* what one iteration of the loop over the deletion plan leaves behind
PurgeIteration(path, objects, a) ==
    /\ nb' = IF a.kind = "listed" THEN [nb EXCEPT ![path] = a.failed] ELSE nb
    /\ plan' = [plan EXCEPT
                  !.index = @ + 1,
                  !.total_deleted = IF a.kind = "listed" THEN @ + Cardinality(objects) ELSE @,
                  !.log = IF a.kind = "listed" THEN @ \o Attempts(path, objects, a.failed)
                          ELSE @]
    /\ failures' = failures + (IF a.kind = "listed" THEN Cardinality(a.failed) ELSE 1)
    /\ pc' = AfterPurgeIteration(a, plan.index + 1)
    /\ last' = [item |-> "endpoint", index |-> plan.index, rejected |-> a.failed,
                outcome |-> a.kind]

\* purge_netbox: one iteration of "for endpoint_path, name in deletion_plan"
PurgeEndpoint ==
    /\ pc = "purging"
    /\ plan.index < Len(deletion_plan)
    /\ \E a \in PurgeAnswers(nb[deletion_plan[plan.index + 1][1]], MaxFailures - failures) :
          PurgeIteration(deletion_plan[plan.index + 1][1],
                         nb[deletion_plan[plan.index + 1][1]], a)
    /\ UNCHANGED <<clab, hashseed, node_index, link_index, devices, successful_links, run>>

NextPurge == PurgeConfirm \/ PurgeEndpoint

\* the loop runs synchronously: an iteration that can run does run
SpecPurge == InitPurge /\ [][NextPurge]_vars /\ WF_vars(PurgeEndpoint)

-----------------------------------------------------------------------------
(* Properties of the purge *)

ChildEndpoints == {"ipam.ip_addresses", "dcim.cables", "dcim.interfaces"}

ParentEndpoints == {"dcim.sites", "dcim.device_types", "dcim.manufacturers", "dcim.device_roles"}

\* the place of an endpoint in the deletion plan
PlanPosition(path) == CHOOSE k \in 1..Len(deletion_plan) : deletion_plan[k][1] = path

\* the deletions were attempted in the order of the plan; those of IP addresses,
\* cables and interfaces before those of devices, those of devices before those
\* of sites, device types, manufacturers and device roles
LogInPlanOrder(log) ==
    /\ \A j, k \in 1..Len(log) :
          j < k => PlanPosition(log[j].path) <= PlanPosition(log[k].path)
    /\ \A j, k \in 1..Len(log) :
          /\ (log[j].path \in ChildEndpoints /\ log[k].path = "dcim.devices") => j < k
          /\ (log[j].path = "dcim.devices" /\ log[k].path \in ParentEndpoints) => j < k

\* C27: the deletions are attempted in the order of the deletion plan, those of
\* IP addresses, cables and interfaces before any of a device and those of
\* devices before any of a site, device type, manufacturer or device role;
\* whatever fails during an iteration, the loop goes on to the next entry, the
\* objects of other endpoints are untouched, and an endpoint whose objects could
\* be listed has the deletion of each of them attempted once, only those whose
\* deletion failed remaining; the purge reaches the end of the plan.
C27_PurgeInPlanOrder ==
    /\ [](pc \in {"purging", "complete"} => LogInPlanOrder(plan.log))
    /\ [][ pc = "purging" =>
              /\ plan'.index = plan.index + 1
              /\ pc' = IF plan.index + 1 < Len(deletion_plan) THEN "purging" ELSE "complete"
              /\ \A p \in PurgeEndpoints \ {deletion_plan[plan.index + 1][1]} :
                    nb'[p] = nb[p]
              /\ last'.outcome = "listed" =>
                    /\ Len(plan'.log) =
                          Len(plan.log) + Cardinality(nb[deletion_plan[plan.index + 1][1]])
                    /\ \A id \in nb[deletion_plan[plan.index + 1][1]] :
                          \E k \in (Len(plan.log) + 1)..Len(plan'.log) :
                              /\ plan'.log[k].path = deletion_plan[plan.index + 1][1]
                              /\ plan'.log[k].id = id
                    /\ nb'[deletion_plan[plan.index + 1][1]] = last'.rejected
      ]_vars
    /\ (pc = "purging") ~> (pc = "complete")

\* the purge came to its end although listing the interfaces had failed: the
\* interfaces are still there, the devices and device roles after them in the
\* plan were deleted, after the IP addresses
C27_Witness ==
    /\ pc = "complete" /\ failures = 1
    /\ nb["dcim.interfaces"] # {}
    /\ nb["ipam.ip_addresses"] = {} /\ nb["dcim.devices"] = {} /\ nb["dcim.device_roles"] = {}
    /\ \A k \in 1..Len(plan.log) : plan.log[k].ok /\ plan.log[k].path # "dcim.interfaces"
    /\ \E j, k \in 1..Len(plan.log) :
          j < k /\ plan.log[j].path = "dcim.devices" /\ plan.log[k].path = "dcim.device_roles"
    /\ plan.total_deleted = Len(plan.log)

====
